---- MODULE Spec2Model ----
(***************************************************************************)
(* Federation hub of @claude-flow/federation (federation-hub.ts): the      *)
(* vector-clock algebra, the conflict resolver and the sync session of     *)
(* one FederationHub instance.  Every `await` of the source is a point     *)
(* where another call on the same hub (recordChange, a second sync,        *)
(* connect, disconnect, forcePush, forcePull) may run; the code between    *)
(* two awaits runs as one step.  The transport (sendSyncMessage) and the   *)
(* storage applier (applyUpdate) are the hub's collaborators: what they    *)
(* return, and whether they raise, is chosen by the environment.           *)
(***************************************************************************)
EXTENDS Integers, Sequences, FiniteSets, TLC

(***************************************************************************)
(* Bounds of the model.                                                    *)
(***************************************************************************)
MaxSyncs == 2        \* sync() calls that pass the connected check
MaxRecords == 2      \* recordChange() calls
MaxRemote == 2       \* remote updates one pull returns
MaxNow == 1          \* largest value of Date.now() and of a remote timestamp
MaxConnects == 2     \* connect() calls that find the hub disconnected
MaxForce == 2        \* forcePush() / forcePull() calls
MaxRejects == 1      \* calls that fail the connected check
MaxForceLen == 2     \* updates given to one forcePush()
MaxRepeats == 1      \* connect() on a connected, disconnect() on a disconnected hub
MaxListens == 3      \* addEventListener() / removeEventListener() calls
MaxTick == 2         \* largest entry of a clock given to the clock utilities

AgentId == "A"       \* config.agentId of the hub
TenantId == "t1"     \* config.tenantId
Agents == {"A", "B"}
RecordIds == {"r1", "r2"}
Strategies == {"last-write-wins", "first-write-wins", "merge", "custom", "unknown"}
Cycles == 1..MaxSyncs
ListenerIds == {"l1", "l2"}

VARIABLES
  conflictResolution, \* config.conflictResolution
  connected,          \* this.connected
  vectorClock,        \* this.vectorClock
  lastSyncTime,       \* this.lastSyncTime
  changeLog,          \* this.changeLog
  stats,              \* this.stats
  syncDurations,      \* this.syncDurations
  now,                \* Date.now()
  calls,              \* the sync() calls: position and local variables of each
  force,              \* the forcePush()/forcePull() calls in flight
  events,             \* events handed to emitEvent, in order
  sent,               \* messages handed to sendSyncMessage, in order
  applied,            \* calls of applyUpdate, in order
  raised,             \* the error the last call raised to its caller
  throwingHandlers,   \* event types with an on(type, handler) whose handler throws
  listeners,          \* this.listeners, in the order a Set iterates
  throwingListeners,  \* the listeners that throw when they are invoked
  delivered,          \* for each event of events, the listeners invoked with it
  operands,           \* a call of a vector clock utility: arguments and result
  budget              \* calls left under the bounds

vars == <<conflictResolution, connected, vectorClock, lastSyncTime, changeLog,
          stats, syncDurations, now, calls, force, events, sent, applied,
          raised, throwingHandlers, listeners, throwingListeners, delivered,
          operands, budget>>

Max(x, y) == IF x >= y THEN x ELSE y

\* JavaScript `x || d` on a number: 0 is falsy.
OrElse(x, d) == IF x = 0 THEN d ELSE x

\* Number.POSITIVE_INFINITY: above every timestamp of the model.
Infinity == MaxNow + 1

(***************************************************************************)
(* Vector clock utilities.  A clock is a function from the agent ids it    *)
(* has as keys to numbers.                                                 *)
(***************************************************************************)
\* a[agentId] || 0
Get(clock, agentId) == IF agentId \in DOMAIN clock THEN OrElse(clock[agentId], 0) ELSE 0

\* A compare that looks at the keys of its first argument only.
compareVectorClocksOwnKeys(a, b) ==
  LET allAgents == DOMAIN a
      aHasNewer == \E agentId \in allAgents : Get(a, agentId) > Get(b, agentId)
      bHasNewer == \E agentId \in allAgents : Get(b, agentId) > Get(a, agentId)
  IN  IF aHasNewer /\ bHasNewer THEN "concurrent"
      ELSE IF aHasNewer THEN "after"
      ELSE IF bHasNewer THEN "before"
      ELSE "equal"

\* A compare that answers as soon as its first argument is newer somewhere.
compareVectorClocksNewerFirst(a, b) ==
  LET allAgents == DOMAIN a \cup DOMAIN b
      aHasNewer == \E agentId \in allAgents : Get(a, agentId) > Get(b, agentId)
      bHasNewer == \E agentId \in allAgents : Get(b, agentId) > Get(a, agentId)
  IN  IF aHasNewer THEN "after"
      ELSE IF bHasNewer THEN "before"
      ELSE "equal"

compareVectorClocks(a, b) ==
  LET allAgents == DOMAIN a \cup DOMAIN b
      aHasNewer == \E agentId \in allAgents : Get(a, agentId) > Get(b, agentId)
      bHasNewer == \E agentId \in allAgents : Get(b, agentId) > Get(a, agentId)
  IN  IF aHasNewer /\ bHasNewer THEN "concurrent"
      ELSE IF aHasNewer THEN "after"
      ELSE IF bHasNewer THEN "before"
      ELSE "equal"

\* A merge that lets the entries of b overwrite those of a.
mergeVectorClocksOverwrites(a, b) ==
  [agentId \in DOMAIN a \cup DOMAIN b |->
     IF agentId \in DOMAIN b THEN b[agentId] ELSE a[agentId]]

mergeVectorClocks(a, b) ==
  [agentId \in DOMAIN a \cup DOMAIN b |->
     IF agentId \in DOMAIN b THEN Max(Get(a, agentId), b[agentId]) ELSE a[agentId]]

\* An increment that returns the incremented entry alone.
incrementVectorClockAlone(clock, agentId) ==
  [k \in {agentId} |-> Get(clock, agentId) + 1]

incrementVectorClock(clock, agentId) ==
  [k \in DOMAIN clock \cup {agentId} |->
     IF k = agentId THEN Get(clock, agentId) + 1 ELSE clock[k]]

(***************************************************************************)
(* Inputs.                                                                 *)
(***************************************************************************)
\* Clocks of remote updates: written by agent B, which has seen nothing of A
\* or A's first tick, and one clock of A alone.
RemoteClocks ==
  {[k \in Agents |-> IF k = "B" THEN 1 ELSE 0],
   [k \in Agents |-> 1],
   [k \in {"A"} |-> 1]}

\* Records that remote updates are about.
RemoteIds == {"r1"}

RemoteUpdates ==
  [id : RemoteIds, vectorClock : RemoteClocks, timestamp : 0..MaxNow]

SeqsUpTo(S, n) == UNION {[1..k -> S] : k \in 0..n}

\* Updates a caller hands to forcePush.
ForceUpdates ==
  [id : RemoteIds, vectorClock : {[k \in {AgentId} |-> 0]}, timestamp : {0}]

NotConnected == "Not connected to federation hub"
TransportFailure == "transport failure"
ApplierFailure == "applier failure"
HandlerFailure == "handler failure"
NoError == [op |-> "none", error |-> "none"]

(***************************************************************************)
(* emitEvent(event).  The listeners of addEventListener run inside a       *)
(* try/catch; this.emit(event.type, event) then runs the handlers          *)
(* registered with on(event.type, ...), and what such a handler throws     *)
(* leaves emitEvent.                                                       *)
(***************************************************************************)
EventTypes ==
  {"connected", "disconnected", "sync_started", "sync_completed", "sync_failed",
   "conflict_detected", "conflict_resolved"}

Throws(type) == type \in throwingHandlers

\* The loop of emitEvent over the listeners ls: each is invoked inside a
\* try/catch, so after one that throws the loop goes on with the next.
RECURSIVE Invoked(_, _)
Invoked(ls, throwing) ==
  IF ls = <<>> THEN <<>>
  ELSE <<Head(ls)>> \o Invoked(Tail(ls), throwing)

\* emitEvent of the events of es in turn: the first whose emit throws, 0 if none
FirstThrow(es) ==
  LET I == {i \in 1..Len(es) : Throws(es[i].type)}
  IN  IF I = {} THEN 0 ELSE CHOOSE i \in I : \A j \in I : i <= j

\* ... and the events that were handed to emitEvent
Emitted(es) == IF FirstThrow(es) = 0 THEN es ELSE SubSeq(es, 1, FirstThrow(es))

(***************************************************************************)
(* Conflict resolution.                                                    *)
(***************************************************************************)
\* this.changeLog.find(u => u.id === id): the first match, <<>> for undefined
Find(log, id) ==
  LET I == {i \in 1..Len(log) : log[i].id = id}
  IN  IF I = {} THEN <<>>
      ELSE <<log[CHOOSE i \in I : \A j \in I : i <= j]>>

\* localVersion?.timestamp || d
LocalTimestampOr(localVersion, d) ==
  IF localVersion = <<>> THEN d ELSE OrElse(localVersion[1].timestamp, d)

\* The ConflictInfo as resolveConflict builds it before it decides.
NewConflictInfo(log, clock, remoteUpdate, t) ==
  LET localVersion == Find(log, remoteUpdate.id)
  IN  [recordId |-> remoteUpdate.id,
       localVersion |->
         IF localVersion # <<>> THEN localVersion[1]
         ELSE [id |-> remoteUpdate.id, vectorClock |-> clock, timestamp |-> t],
       remoteVersion |-> remoteUpdate,
       resolution |-> "skip",
       reason |-> ""]

\* Faulty variant of resolveConflict: under last-write-wins a tie of the
\* timestamps goes to remote.
resolveConflictTieToRemote(log, clock, strategy, remoteUpdate, t) ==
  LET localVersion == Find(log, remoteUpdate.id)
      conflictInfo == NewConflictInfo(log, clock, remoteUpdate, t)
  IN  CASE strategy = "last-write-wins" ->
             IF remoteUpdate.timestamp >= LocalTimestampOr(localVersion, 0)
             THEN [conflictInfo EXCEPT !.resolution = "remote"]
             ELSE [conflictInfo EXCEPT !.resolution = "local"]
        [] strategy = "first-write-wins" ->
             IF remoteUpdate.timestamp < LocalTimestampOr(localVersion, Infinity)
             THEN [conflictInfo EXCEPT !.resolution = "remote"]
             ELSE [conflictInfo EXCEPT !.resolution = "local"]
        [] strategy = "merge" -> [conflictInfo EXCEPT !.resolution = "merge"]
        [] OTHER -> conflictInfo

\* Faulty variant of resolveConflict: strategy custom decides as
\* last-write-wins does.
resolveConflictCustomByTimestamp(log, clock, strategy, remoteUpdate, t) ==
  LET localVersion == Find(log, remoteUpdate.id)
      conflictInfo == NewConflictInfo(log, clock, remoteUpdate, t)
  IN  CASE strategy \in {"last-write-wins", "custom"} ->
             IF remoteUpdate.timestamp > LocalTimestampOr(localVersion, 0)
             THEN [conflictInfo EXCEPT !.resolution = "remote"]
             ELSE [conflictInfo EXCEPT !.resolution = "local"]
        [] strategy = "first-write-wins" ->
             IF remoteUpdate.timestamp < LocalTimestampOr(localVersion, Infinity)
             THEN [conflictInfo EXCEPT !.resolution = "remote"]
             ELSE [conflictInfo EXCEPT !.resolution = "local"]
        [] strategy = "merge" -> [conflictInfo EXCEPT !.resolution = "merge"]
        [] OTHER -> conflictInfo

\* Faulty variant of resolveConflict: a remote delete always wins.
resolveConflictDeleteWins(log, clock, strategy, remoteUpdate, t) ==
  LET localVersion == Find(log, remoteUpdate.id)
      conflictInfo == NewConflictInfo(log, clock, remoteUpdate, t)
  IN  CASE remoteUpdate.operation = "delete" ->
             [conflictInfo EXCEPT !.resolution = "remote"]
        [] strategy = "last-write-wins" ->
             IF remoteUpdate.timestamp > LocalTimestampOr(localVersion, 0)
             THEN [conflictInfo EXCEPT !.resolution = "remote"]
             ELSE [conflictInfo EXCEPT !.resolution = "local"]
        [] strategy = "first-write-wins" ->
             IF remoteUpdate.timestamp < LocalTimestampOr(localVersion, Infinity)
             THEN [conflictInfo EXCEPT !.resolution = "remote"]
             ELSE [conflictInfo EXCEPT !.resolution = "local"]
        [] strategy = "merge" -> [conflictInfo EXCEPT !.resolution = "merge"]
        [] OTHER -> conflictInfo

resolveConflict(log, clock, strategy, remoteUpdate, t) ==
  LET localVersion == Find(log, remoteUpdate.id)
      conflictInfo == NewConflictInfo(log, clock, remoteUpdate, t)
  IN  CASE strategy = "last-write-wins" ->
             IF remoteUpdate.timestamp > LocalTimestampOr(localVersion, 0)
             THEN [conflictInfo EXCEPT !.resolution = "remote",
                                       !.reason = "Remote has newer timestamp"]
             ELSE [conflictInfo EXCEPT !.resolution = "local",
                                       !.reason = "Local has newer timestamp"]
        [] strategy = "first-write-wins" ->
             IF remoteUpdate.timestamp < LocalTimestampOr(localVersion, Infinity)
             THEN [conflictInfo EXCEPT !.resolution = "remote",
                                       !.reason = "Remote has older timestamp"]
             ELSE [conflictInfo EXCEPT !.resolution = "local",
                                       !.reason = "Local has older timestamp"]
        [] strategy = "merge" ->
             [conflictInfo EXCEPT !.resolution = "merge",
                                  !.reason = "Merged local and remote data"]
        [] OTHER ->
             [conflictInfo EXCEPT !.resolution = "skip",
                                  !.reason = "No resolution strategy"]

\* The two events of a conflict, and the outcome of processRemoteUpdate for a
\* conflict and for an update that is applied.
ConflictOutcome(comparison, clock, update, resolution) ==
  [comparison |-> comparison,
   conflict |-> <<resolution>>,
   emitted |-> <<[type |-> "conflict_detected", recordId |-> update.id,
                  local |-> clock, remote |-> update.vectorClock],
                 [type |-> "conflict_resolved", recordId |-> update.id,
                  resolution |-> resolution.resolution]>>,
   apply |-> <<>>]

ApplyOutcome(comparison, update) ==
  [comparison |-> comparison, conflict |-> <<>>, emitted |-> <<>>,
   apply |-> <<update>>]

\* Faulty variant of processRemoteUpdate: an update the hub's clock is already
\* after is dropped instead of applied.
processRemoteUpdateDropsStale(log, clock, strategy, update, t) ==
  LET comparison == compareVectorClocks(clock, update.vectorClock)
  IN  IF comparison = "concurrent"
      THEN ConflictOutcome(comparison, clock, update,
                           resolveConflict(log, clock, strategy, update, t))
      ELSE IF comparison = "after"
      THEN [ApplyOutcome(comparison, update) EXCEPT !.apply = <<>>]
      ELSE ApplyOutcome(comparison, update)

\* Faulty variant of processRemoteUpdate: an update that is ahead of the hub's
\* clock counts as a conflict too.
processRemoteUpdateConflictIfBehind(log, clock, strategy, update, t) ==
  LET comparison == compareVectorClocks(clock, update.vectorClock)
  IN  IF comparison \in {"concurrent", "before"}
      THEN ConflictOutcome(comparison, clock, update,
                           resolveConflict(log, clock, strategy, update, t))
      ELSE ApplyOutcome(comparison, update)

(***************************************************************************)
(* processRemoteUpdate up to its first await: the comparison, and either   *)
(* the conflict with its two events or the call of applyUpdate.            *)
(***************************************************************************)
processRemoteUpdate(log, clock, strategy, update, t) ==
  LET comparison == compareVectorClocks(clock, update.vectorClock)
  IN  IF comparison = "concurrent"
      THEN ConflictOutcome(comparison, clock, update,
                           resolveConflict(log, clock, strategy, update, t))
      ELSE ApplyOutcome(comparison, update)

(***************************************************************************)
(* State after construction.                                               *)
(***************************************************************************)
IdleCall ==
  [pc |-> "idle", startTime |-> 0, pullClock |-> <<>>, remoteUpdates |-> <<>>,
   idx |-> 0, seen |-> <<>>, cmp |-> <<>>, ret |-> <<>>, conflicts |-> <<>>,
   localChanges |-> <<>>, result |-> <<>>, error |-> ""]


(***************************************************************************)
(* The configurations explored: the strategy the hub is constructed with   *)
(* and the calls its owner and its collaborators make.                     *)
(*   Resolving: one sync cycle that pulls one update, under every strategy.*)
(*   Pulling:   one sync cycle that pulls a batch of updates.              *)
(*   Recording: one sync cycle among several recorded changes.             *)
(*   Racing:    sync calls that overlap, under the default strategy.       *)
(*   Lifecycle: connects, disconnects, repeated ones, and calls of sync,   *)
(*              forcePush and forcePull on a disconnected hub, around one  *)
(*              sync cycle.                                                *)
(*   Forcing:   forced pushes and pulls on a connected hub.                *)
(*   Observing: one sync cycle and a reconnect on a hub with a handler,    *)
(*              registered with on() for one event type, that throws.      *)
(*   Listening: listeners added and removed around one sync cycle; none,   *)
(*              one or both of them throw.                                 *)
(***************************************************************************)
Resolving ==
  [syncs |-> 1, records |-> 1, remote |-> 1, connects |-> 1,
   disconnects |-> 0, rejects |-> 0, force |-> 0, repeats |-> 0, listens |-> 0,
   until |-> MaxNow]

Pulling ==
  [syncs |-> 1, records |-> 1, remote |-> MaxRemote, connects |-> 1,
   disconnects |-> 0, rejects |-> 0, force |-> 0, repeats |-> 0, listens |-> 0, until |-> 0]

Recording ==
  [syncs |-> 1, records |-> MaxRecords, remote |-> 1, connects |-> 1,
   disconnects |-> 0, rejects |-> 0, force |-> 0, repeats |-> 0, listens |-> 0, until |-> 0]

Racing ==
  [syncs |-> MaxSyncs, records |-> 1, remote |-> 1, connects |-> 1,
   disconnects |-> 0, rejects |-> 0, force |-> 0, repeats |-> 0, listens |-> 0, until |-> 0]

Lifecycle ==
  [syncs |-> 1, records |-> 1, remote |-> 0, connects |-> MaxConnects,
   disconnects |-> MaxConnects, rejects |-> MaxRejects, force |-> 0,
   repeats |-> MaxRepeats, listens |-> 0, until |-> 0]

Forcing ==
  [syncs |-> 0, records |-> 1, remote |-> 1, connects |-> 1,
   disconnects |-> 0, rejects |-> 0, force |-> MaxForce,
   repeats |-> 0, listens |-> 0, until |-> 0]

Observing ==
  [syncs |-> 1, records |-> 1, remote |-> 1, connects |-> 2,
   disconnects |-> 1, rejects |-> 0, force |-> 0, repeats |-> 0, listens |-> 0, until |-> 0]

Listening ==
  [syncs |-> 1, records |-> 0, remote |-> 0, connects |-> 1,
   disconnects |-> 0, rejects |-> 0, force |-> 0, repeats |-> 0,
   listens |-> MaxListens, until |-> 0]

DefaultStrategy == "last-write-wins"

Configurations ==
  (Strategies \X {Resolving} \X {{}} \X {{}})
    \cup ({DefaultStrategy} \X {Pulling, Recording, Racing, Lifecycle, Forcing}
           \X {{}} \X {{}})
    \cup ({DefaultStrategy} \X {Observing} \X {{type} : type \in EventTypes}
           \X {{}})
    \cup ({DefaultStrategy} \X {Listening} \X {{}} \X SUBSET ListenerIds)

\* No call of a clock utility on its own.
NoOperands == [a |-> <<>>, b |-> <<>>, c |-> <<>>, id |-> "", op |-> "none", out |-> <<>>]

\* The hub as its constructor leaves it, in configuration cfg.
Constructed(cfg) ==
  /\ conflictResolution = cfg[1]
  /\ budget = cfg[2]
  /\ throwingHandlers = cfg[3]
  /\ throwingListeners = cfg[4]
  /\ listeners = <<>>
  /\ delivered = <<>>
  /\ connected = FALSE
  /\ vectorClock = [k \in {AgentId} |-> 0]
  /\ lastSyncTime = 0
  /\ changeLog = <<>>
  /\ stats = [lastSyncTime |-> 0, totalSyncs |-> 0, totalPulled |-> 0,
              totalPushed |-> 0, totalConflicts |-> 0, totalResolved |-> 0,
              avgSyncDurationMs |-> [sum |-> 0, count |-> 1]]
  /\ syncDurations = <<>>
  /\ now = 0
  /\ calls = [c \in Cycles |-> IdleCall]
  /\ force = <<>>
  /\ events = <<>>
  /\ sent = <<>>
  /\ applied = <<>>
  /\ raised = NoError

Init ==
  /\ \E cfg \in Configurations : Constructed(cfg)
  /\ operands = NoOperands

(***************************************************************************)
(* Date.now(): a reading is any value from the last one read on, up to the *)
(* last value of the configuration.  The readings of one step (the code    *)
(* between two awaits) are one value.                                      *)
(***************************************************************************)
Clock == {t \in 0..budget.until : t >= now}

(***************************************************************************)
(* connect() and disconnect().                                             *)
(***************************************************************************)
\* Every event the step hands to emitEvent goes to the listeners registered
\* at that moment.
Notify ==
  delivered' = delivered \o [i \in 1..(Len(events') - Len(events)) |->
                              Invoked(listeners, throwingListeners)]

\* What a call raises to its caller when emitEvent of the given type threw.
Raise(op, type) ==
  IF Throws(type) THEN [op |-> op, error |-> HandlerFailure] ELSE raised

\* Faulty variant of Connect: a call on a connected hub emits connected again.
ConnectAgainEmits ==
  /\ IF connected
     THEN /\ budget.repeats > 0
          /\ budget' = [budget EXCEPT !.repeats = @ - 1]
          /\ events' = Append(events, [type |-> "connected", agentId |-> AgentId])
          /\ UNCHANGED <<connected, lastSyncTime, now, raised>>
     ELSE /\ budget.connects > 0
          /\ now' \in Clock
          /\ budget' = [budget EXCEPT !.connects = @ - 1]
          /\ connected' = TRUE
          /\ lastSyncTime' = now'
          /\ events' = Append(events, [type |-> "connected", agentId |-> AgentId])
          /\ raised' = Raise("connect", "connected")
  /\ UNCHANGED <<conflictResolution, vectorClock, changeLog, stats,
                 syncDurations, calls, force, sent, applied, throwingHandlers, listeners,
                 throwingListeners, operands>>
  /\ Notify

Connect ==
  /\ IF connected
     THEN /\ budget.repeats > 0
          /\ budget' = [budget EXCEPT !.repeats = @ - 1]
          /\ UNCHANGED <<connected, lastSyncTime, events, now, raised>>
     ELSE /\ budget.connects > 0
          /\ now' \in Clock
          /\ budget' = [budget EXCEPT !.connects = @ - 1]
          /\ connected' = TRUE
          /\ lastSyncTime' = now'
          /\ events' = Append(events, [type |-> "connected", agentId |-> AgentId])
          /\ raised' = Raise("connect", "connected")
  /\ UNCHANGED <<conflictResolution, vectorClock, changeLog, stats,
                 syncDurations, calls, force, sent, applied, throwingHandlers, listeners,
                 throwingListeners, operands>>
  /\ Notify

\* Faulty variant of Disconnect: the change log is torn down with the
\* connection.
DisconnectTearsDown ==
  /\ IF ~connected
     THEN /\ budget.repeats > 0
          /\ budget' = [budget EXCEPT !.repeats = @ - 1]
          /\ UNCHANGED <<connected, events, raised, changeLog>>
     ELSE /\ budget.disconnects > 0
          /\ budget' = [budget EXCEPT !.disconnects = @ - 1]
          /\ connected' = FALSE
          /\ changeLog' = <<>>
          /\ events' = Append(events, [type |-> "disconnected", agentId |-> AgentId])
          /\ raised' = Raise("disconnect", "disconnected")
  /\ UNCHANGED <<conflictResolution, vectorClock, lastSyncTime, stats,
                 syncDurations, now, calls, force, sent, applied,
                 throwingHandlers, listeners,
                 throwingListeners, operands>>
  /\ Notify

Disconnect ==
  /\ IF ~connected
     THEN /\ budget.repeats > 0
          /\ budget' = [budget EXCEPT !.repeats = @ - 1]
          /\ UNCHANGED <<connected, events, raised>>
     ELSE /\ budget.disconnects > 0
          /\ budget' = [budget EXCEPT !.disconnects = @ - 1]
          /\ connected' = FALSE
          /\ events' = Append(events, [type |-> "disconnected", agentId |-> AgentId])
          /\ raised' = Raise("disconnect", "disconnected")
  /\ UNCHANGED <<conflictResolution, vectorClock, lastSyncTime, changeLog, stats,
                 syncDurations, now, calls, force, sent, applied,
                 throwingHandlers, listeners,
                 throwingListeners, operands>>
  /\ Notify

(***************************************************************************)
(* addEventListener(listener) and removeEventListener(listener):           *)
(* this.listeners is a Set, which iterates in the order of insertion and   *)
(* keeps the place of a member that is added again.                        *)
(***************************************************************************)
Listens ==
  /\ budget.listens > 0
  /\ budget' = [budget EXCEPT !.listens = @ - 1]
  /\ UNCHANGED <<conflictResolution, connected, vectorClock, lastSyncTime,
                 changeLog, stats, syncDurations, now, calls, force, events,
                 sent, applied, raised, throwingHandlers, throwingListeners,
                 delivered, operands>>

\* Faulty variant of AddEventListener: a new listener is put in front of the
\* others.
AddEventListenerInFront(listener) ==
  /\ listeners' = IF \E i \in 1..Len(listeners) : listeners[i] = listener
                  THEN listeners
                  ELSE <<listener>> \o listeners
  /\ Listens

AddEventListener(listener) ==
  /\ listeners' = IF \E i \in 1..Len(listeners) : listeners[i] = listener
                  THEN listeners
                  ELSE Append(listeners, listener)
  /\ Listens

RemoveEventListener(listener) ==
  /\ listeners' = SelectSeq(listeners, LAMBDA l : l # listener)
  /\ Listens

(***************************************************************************)
(* recordChange(update).                                                   *)
(***************************************************************************)
\* Faulty variant of RecordChange: the update is stamped with the clock after
\* the increment.
RecordChangeStampsAfterTick(id) ==
  /\ budget.records > 0
  /\ budget' = [budget EXCEPT !.records = @ - 1]
  /\ now' \in Clock
  /\ vectorClock' = incrementVectorClock(vectorClock, AgentId)
  /\ changeLog' = Append(changeLog,
                         [id |-> id, vectorClock |-> vectorClock', timestamp |-> now'])
  /\ UNCHANGED <<conflictResolution, connected, lastSyncTime, stats,
                 syncDurations, calls, force, events, sent, applied, raised,
                 throwingHandlers, listeners,
                 throwingListeners, operands>>
  /\ Notify

\* Faulty variant of RecordChange: the clock is not incremented.
RecordChangeKeepsClock(id) ==
  /\ budget.records > 0
  /\ budget' = [budget EXCEPT !.records = @ - 1]
  /\ now' \in Clock
  /\ changeLog' = Append(changeLog,
                         [id |-> id, vectorClock |-> vectorClock, timestamp |-> now'])
  /\ vectorClock' = vectorClock
  /\ UNCHANGED <<conflictResolution, connected, lastSyncTime, stats,
                 syncDurations, calls, force, events, sent, applied, raised,
                 throwingHandlers, listeners,
                 throwingListeners, operands>>
  /\ Notify

RecordChange(id) ==
  /\ budget.records > 0
  /\ budget' = [budget EXCEPT !.records = @ - 1]
  /\ now' \in Clock
  /\ changeLog' = Append(changeLog,
                         [id |-> id, vectorClock |-> vectorClock, timestamp |-> now'])
  /\ vectorClock' = incrementVectorClock(vectorClock, AgentId)
  /\ UNCHANGED <<conflictResolution, connected, lastSyncTime, stats,
                 syncDurations, calls, force, events, sent, applied, raised,
                 throwingHandlers, listeners,
                 throwingListeners, operands>>
  /\ Notify

(***************************************************************************)
(* sync(db).  The positions of a call:                                     *)
(*   "pull"   awaiting sendSyncMessage(pullMessage)                        *)
(*   "apply"  in processRemoteUpdate, awaiting applyUpdate                 *)
(*   "next"   awaiting processRemoteUpdate of update idx, which returned   *)
(*   "push"   awaiting sendSyncMessage(pushMessage)                        *)
(*   "done"   returned its result;  "failed"  raised its error             *)
(***************************************************************************)
InFlight == {"pull", "apply", "next", "push"}

\* updateAvgDuration(durationMs): the window after the push and the shift
SyncDurationWindow == 100

updateAvgDuration(durations, durationMs) ==
  LET pushed == Append(durations, durationMs)
  IN  IF Len(pushed) > SyncDurationWindow THEN Tail(pushed) ELSE pushed

RECURSIVE Sum(_)
Sum(q) == IF q = <<>> THEN 0 ELSE Head(q) + Sum(Tail(q))

\* The catch block of sync, entered with the events the step has emitted
\* before the error: sync_failed, then the error goes to the caller.  A
\* handler of sync_failed that throws replaces the error.
Fail(c, cy, message, before) ==
  /\ events' = Append(events \o before,
                      [type |-> "sync_failed", agentId |-> AgentId,
                       error |-> message])
  /\ calls' = [calls EXCEPT ![c] = [cy EXCEPT !.pc = "failed",
                                              !.error = message]]
  /\ raised' = [op |-> "sync",
                error |-> IF Throws("sync_failed") THEN HandlerFailure
                          ELSE message]

\* Faulty variant of SyncResult: pullCount counts the updates that were
\* applied only.
SyncResultCountsApplied(cy, durationMs, clock) ==
  [success |-> TRUE,
   pullCount |-> Len(cy.remoteUpdates) - Len(cy.conflicts),
   pushCount |-> Len(cy.localChanges),
   conflictCount |-> Len(cy.conflicts),
   resolvedConflicts |-> cy.conflicts,
   durationMs |-> durationMs,
   vectorClock |-> clock]

\* const result: SyncResult = { ... }
SyncResult(cy, durationMs, clock) ==
  [success |-> TRUE,
   pullCount |-> Len(cy.remoteUpdates),
   pushCount |-> Len(cy.localChanges),
   conflictCount |-> Len(cy.conflicts),
   resolvedConflicts |-> cy.conflicts,
   durationMs |-> durationMs,
   vectorClock |-> clock]

\* Faulty variant of NotSkipped: a conflict that was skipped counts as
\* resolved.
NotSkippedKeepsAll(conflicts) == conflicts

\* conflicts.filter(c => c.resolution !== 'skip')
NotSkipped(conflicts) == SelectSeq(conflicts, LAMBDA x : x.resolution # "skip")

\* The statistics update, the result and the sync_completed event.
Finalize(c, cy, t) ==
  LET durationMs == t - cy.startTime
      durations == updateAvgDuration(syncDurations, durationMs)
      result == SyncResult(cy, durationMs, vectorClock)
      completed == [type |-> "sync_completed", agentId |-> AgentId,
                    result |-> result]
  IN  /\ lastSyncTime' = t
      /\ syncDurations' = durations
      /\ stats' = [lastSyncTime |-> t,
                   totalSyncs |-> stats.totalSyncs + 1,
                   totalPulled |-> stats.totalPulled + Len(cy.remoteUpdates),
                   totalPushed |-> stats.totalPushed + Len(cy.localChanges),
                   totalConflicts |-> stats.totalConflicts + Len(cy.conflicts),
                   totalResolved |-> stats.totalResolved
                                       + Len(NotSkipped(cy.conflicts)),
                   avgSyncDurationMs |-> [sum |-> Sum(durations),
                                          count |-> Len(durations)]]
      /\ IF Throws("sync_completed")
         THEN Fail(c, cy, HandlerFailure, <<completed>>)
         ELSE /\ events' = Append(events, completed)
              /\ calls' = [calls EXCEPT ![c] = [cy EXCEPT !.pc = "done",
                                                          !.result = <<result>>]]
              /\ UNCHANGED raised
      /\ now' = t
      /\ UNCHANGED <<sent, applied>>

\* Faulty variant of getLocalChanges: only the newest entry is taken.
getLocalChangesNewestOnly(log) ==
  IF log = <<>> THEN <<>> ELSE <<log[Len(log)]>>

\* getLocalChanges(): a copy of the change log
getLocalChanges(log) == log

\* The call runs on from the head of the loop over remoteUpdates to its next
\* await: into processRemoteUpdate of update cy.idx, or past the loop into the
\* push leg.  An error thrown inside processRemoteUpdate rejects its promise:
\* the call learns of it when it resumes.
\* seen is this.vectorClock as processRemoteUpdate read it for the comparison.
Continue(c, cy, t) ==
  IF cy.idx <= Len(cy.remoteUpdates)
  THEN LET update == cy.remoteUpdates[cy.idx]
           p == processRemoteUpdate(changeLog, vectorClock, conflictResolution,
                                    update, t)
           thrown == FirstThrow(p.emitted)
       IN  /\ events' = events \o Emitted(p.emitted)
           /\ applied' = applied \o [i \in 1..Len(p.apply) |->
                                       [cycle |-> c, idx |-> cy.idx,
                                        update |-> p.apply[i]]]
           /\ calls' = [calls EXCEPT ![c] =
                          [cy EXCEPT !.pc = IF p.apply = <<>> THEN "next" ELSE "apply",
                                     !.seen = vectorClock,
                                     !.cmp = Append(@, p.comparison),
                                     !.ret = IF thrown = 0 THEN p.conflict ELSE <<>>,
                                     !.error = IF thrown = 0 THEN ""
                                               ELSE HandlerFailure]]
           /\ now' = IF /\ p.conflict # <<>>
                        /\ thrown # 1
                        /\ Find(changeLog, update.id) = <<>>
                     THEN t ELSE now
           /\ UNCHANGED <<sent, stats, syncDurations, lastSyncTime, raised>>
  ELSE LET localChanges == getLocalChanges(changeLog)
       IN  IF Len(localChanges) > 0
           THEN /\ sent' = Append(sent, [type |-> "push", agentId |-> AgentId,
                                         tenantId |-> TenantId,
                                         vectorClock |-> vectorClock,
                                         timestamp |-> t,
                                         data |-> localChanges])
                /\ calls' = [calls EXCEPT ![c] =
                               [cy EXCEPT !.pc = "push",
                                          !.localChanges = localChanges]]
                /\ now' = t
                /\ UNCHANGED <<events, applied, stats, syncDurations,
                               lastSyncTime, raised>>
           ELSE Finalize(c, [cy EXCEPT !.localChanges = localChanges], t)

\* Faulty variant of SyncNotConnected: sync_started is emitted before the
\* connected check.
SyncNotConnectedAfterStarted ==
  /\ ~connected
  /\ budget.rejects > 0
  /\ budget' = [budget EXCEPT !.rejects = @ - 1]
  /\ events' = Append(events, [type |-> "sync_started", agentId |-> AgentId])
  /\ raised' = [op |-> "sync", error |-> NotConnected]
  /\ UNCHANGED <<conflictResolution, connected, vectorClock, lastSyncTime,
                 changeLog, stats, syncDurations, now, calls, force, sent,
                 applied, throwingHandlers, listeners,
                 throwingListeners, operands>>
  /\ Notify

SyncNotConnected ==
  /\ ~connected
  /\ budget.rejects > 0
  /\ budget' = [budget EXCEPT !.rejects = @ - 1]
  /\ raised' = [op |-> "sync", error |-> NotConnected]
  /\ UNCHANGED <<conflictResolution, connected, vectorClock, lastSyncTime,
                 changeLog, stats, syncDurations, now, calls, force, events,
                 sent, applied, throwingHandlers, listeners,
                 throwingListeners, operands>>
  /\ Notify

\* Faulty variant of SyncCall: the clock advances only when there are local
\* changes to push.
SyncCallTicksOnlyWithChanges(c) ==
  /\ connected
  /\ calls[c].pc = "idle"
  /\ \A d \in Cycles : d < c => calls[d].pc # "idle"
  /\ budget.syncs > 0
  /\ budget' = [budget EXCEPT !.syncs = @ - 1]
  /\ now' \in Clock
  /\ events' = Append(events, [type |-> "sync_started", agentId |-> AgentId])
  /\ IF Throws("sync_started")
     THEN /\ calls' = [calls EXCEPT ![c].pc = "aborted", ![c].startTime = now',
                                    ![c].error = HandlerFailure]
          /\ raised' = [op |-> "sync", error |-> HandlerFailure]
          /\ UNCHANGED <<vectorClock, sent>>
     ELSE /\ vectorClock' = IF changeLog = <<>> THEN vectorClock
                            ELSE incrementVectorClock(vectorClock, AgentId)
          /\ sent' = Append(sent, [type |-> "pull", agentId |-> AgentId,
                                   tenantId |-> TenantId,
                                   vectorClock |-> vectorClock',
                                   timestamp |-> now'])
          /\ calls' = [calls EXCEPT ![c].pc = "pull", ![c].startTime = now',
                                    ![c].pullClock = vectorClock']
          /\ UNCHANGED raised
  /\ UNCHANGED <<conflictResolution, connected, lastSyncTime, changeLog, stats,
                 syncDurations, force, applied, throwingHandlers, listeners,
                 throwingListeners, operands>>
  /\ Notify

\* Faulty variant of SyncCall: the pull message is built before the clock is
\* incremented.
SyncCallPullsBeforeTick(c) ==
  /\ connected
  /\ calls[c].pc = "idle"
  /\ \A d \in Cycles : d < c => calls[d].pc # "idle"
  /\ budget.syncs > 0
  /\ budget' = [budget EXCEPT !.syncs = @ - 1]
  /\ now' \in Clock
  /\ events' = Append(events, [type |-> "sync_started", agentId |-> AgentId])
  /\ IF Throws("sync_started")
     THEN /\ calls' = [calls EXCEPT ![c].pc = "aborted", ![c].startTime = now',
                                    ![c].error = HandlerFailure]
          /\ raised' = [op |-> "sync", error |-> HandlerFailure]
          /\ UNCHANGED <<vectorClock, sent>>
     ELSE /\ vectorClock' = incrementVectorClock(vectorClock, AgentId)
          /\ sent' = Append(sent, [type |-> "pull", agentId |-> AgentId,
                                   tenantId |-> TenantId,
                                   vectorClock |-> vectorClock,
                                   timestamp |-> now'])
          /\ calls' = [calls EXCEPT ![c].pc = "pull", ![c].startTime = now',
                                    ![c].pullClock = vectorClock]
          /\ UNCHANGED raised
  /\ UNCHANGED <<conflictResolution, connected, lastSyncTime, changeLog, stats,
                 syncDurations, force, applied, throwingHandlers, listeners,
                 throwingListeners, operands>>
  /\ Notify

\* sync up to its first await.  sync_started is emitted before the try block:
\* what its handler throws goes to the caller at once ("aborted").
SyncCall(c) ==
  /\ connected
  /\ calls[c].pc = "idle"
  /\ \A d \in Cycles : d < c => calls[d].pc # "idle"
  /\ budget.syncs > 0
  /\ budget' = [budget EXCEPT !.syncs = @ - 1]
  /\ now' \in Clock
  /\ events' = Append(events, [type |-> "sync_started", agentId |-> AgentId])
  /\ IF Throws("sync_started")
     THEN /\ calls' = [calls EXCEPT ![c].pc = "aborted", ![c].startTime = now',
                                    ![c].error = HandlerFailure]
          /\ raised' = [op |-> "sync", error |-> HandlerFailure]
          /\ UNCHANGED <<vectorClock, sent>>
     ELSE /\ vectorClock' = incrementVectorClock(vectorClock, AgentId)
          /\ sent' = Append(sent, [type |-> "pull", agentId |-> AgentId,
                                   tenantId |-> TenantId,
                                   vectorClock |-> vectorClock',
                                   timestamp |-> now'])
          /\ calls' = [calls EXCEPT ![c].pc = "pull", ![c].startTime = now',
                                    ![c].pullClock = vectorClock']
          /\ UNCHANGED raised
  /\ UNCHANGED <<conflictResolution, connected, lastSyncTime, changeLog, stats,
                 syncDurations, force, applied, throwingHandlers, listeners,
                 throwingListeners, operands>>
  /\ Notify

PullReturn(c, remoteUpdates) ==
  /\ calls[c].pc = "pull"
  /\ Len(remoteUpdates) <= budget.remote
  /\ budget' = [budget EXCEPT !.remote = @ - Len(remoteUpdates)]
  /\ \E t \in Clock :
       Continue(c, [calls[c] EXCEPT !.remoteUpdates = remoteUpdates, !.idx = 1], t)
  /\ UNCHANGED <<conflictResolution, connected, vectorClock, changeLog,
                 force, throwingHandlers, listeners,
                 throwingListeners, operands>>
  /\ Notify

PullRaise(c) ==
  /\ calls[c].pc = "pull"
  /\ Fail(c, calls[c], TransportFailure, <<>>)
  /\ UNCHANGED <<conflictResolution, connected, vectorClock, lastSyncTime,
                 changeLog, stats, syncDurations, now, force, sent, applied,
                 throwingHandlers, listeners,
                 throwingListeners, operands, budget>>
  /\ Notify

ApplyReturn(c) ==
  /\ calls[c].pc = "apply"
  /\ vectorClock' = mergeVectorClocks(vectorClock,
                      calls[c].remoteUpdates[calls[c].idx].vectorClock)
  /\ calls' = [calls EXCEPT ![c].pc = "next"]
  /\ UNCHANGED <<conflictResolution, connected, lastSyncTime, changeLog, stats,
                 syncDurations, now, force, events, sent, applied, raised,
                 throwingHandlers, listeners,
                 throwingListeners, operands, budget>>
  /\ Notify

ApplyRaise(c) ==
  /\ calls[c].pc = "apply"
  /\ Fail(c, calls[c], ApplierFailure, <<>>)
  /\ UNCHANGED <<conflictResolution, connected, vectorClock, lastSyncTime,
                 changeLog, stats, syncDurations, now, force, sent, applied,
                 throwingHandlers, listeners,
                 throwingListeners, operands, budget>>
  /\ Notify

\* processRemoteUpdate has settled: the call takes up its result, or enters
\* the catch block with what was thrown.
Resume(c) ==
  /\ calls[c].pc = "next"
  /\ IF calls[c].error # ""
     THEN /\ Fail(c, calls[c], calls[c].error, <<>>)
          /\ UNCHANGED <<lastSyncTime, stats, syncDurations, now, sent, applied>>
     ELSE \E t \in Clock :
            Continue(c, [calls[c] EXCEPT !.conflicts = @ \o calls[c].ret,
                                        !.ret = <<>>,
                                        !.idx = @ + 1], t)
  /\ UNCHANGED <<conflictResolution, connected, vectorClock, changeLog,
                 force, throwingHandlers, listeners,
                 throwingListeners, operands, budget>>
  /\ Notify

\* clearLocalChanges()
clearLocalChanges(log) == <<>>

PushReturn(c) ==
  /\ calls[c].pc = "push"
  /\ changeLog' = clearLocalChanges(changeLog)
  /\ \E t \in Clock : Finalize(c, calls[c], t)
  /\ UNCHANGED <<conflictResolution, connected, vectorClock, force,
                 throwingHandlers, listeners,
                 throwingListeners, operands, budget>>
  /\ Notify

PushRaise(c) ==
  /\ calls[c].pc = "push"
  /\ Fail(c, calls[c], TransportFailure, <<>>)
  /\ UNCHANGED <<conflictResolution, connected, vectorClock, lastSyncTime,
                 changeLog, stats, syncDurations, now, force, sent, applied,
                 throwingHandlers, listeners,
                 throwingListeners, operands, budget>>
  /\ Notify

(***************************************************************************)
(* forcePush(updates) and forcePull(): the check and the message, then,    *)
(* after the await of sendSyncMessage, the counter.                        *)
(***************************************************************************)
RemoveAt(q, i) == [j \in 1..(Len(q) - 1) |-> IF j < i THEN q[j] ELSE q[j + 1]]

ForcePushNotConnected ==
  /\ ~connected
  /\ budget.rejects > 0
  /\ budget' = [budget EXCEPT !.rejects = @ - 1]
  /\ raised' = [op |-> "forcePush", error |-> NotConnected]
  /\ UNCHANGED <<conflictResolution, connected, vectorClock, lastSyncTime,
                 changeLog, stats, syncDurations, now, calls, force, events,
                 sent, applied, throwingHandlers, listeners,
                 throwingListeners, operands>>
  /\ Notify

ForcePushCall(updates) ==
  /\ connected
  /\ budget.force > 0
  /\ budget' = [budget EXCEPT !.force = @ - 1]
  /\ now' \in Clock
  /\ sent' = Append(sent, [type |-> "push", agentId |-> AgentId,
                           tenantId |-> TenantId, vectorClock |-> vectorClock,
                           timestamp |-> now', data |-> updates])
  /\ force' = Append(force, [op |-> "forcePush", updates |-> updates])
  /\ UNCHANGED <<conflictResolution, connected, vectorClock, lastSyncTime,
                 changeLog, stats, syncDurations, calls, events, applied, raised,
                 throwingHandlers, listeners,
                 throwingListeners, operands>>
  /\ Notify

\* Faulty variant of ForcePushReturn: a forced push clears the change log as
\* the push of a sync cycle does.
ForcePushReturnClears(i) ==
  /\ i \in DOMAIN force
  /\ force[i].op = "forcePush"
  /\ stats' = [stats EXCEPT !.totalPushed = @ + Len(force[i].updates)]
  /\ force' = RemoveAt(force, i)
  /\ changeLog' = clearLocalChanges(changeLog)
  /\ UNCHANGED <<conflictResolution, connected, vectorClock, lastSyncTime,
                 syncDurations, now, calls, events, sent, applied,
                 raised, throwingHandlers, listeners,
                 throwingListeners, operands, budget>>
  /\ Notify

ForcePushReturn(i) ==
  /\ i \in DOMAIN force
  /\ force[i].op = "forcePush"
  /\ stats' = [stats EXCEPT !.totalPushed = @ + Len(force[i].updates)]
  /\ force' = RemoveAt(force, i)
  /\ UNCHANGED <<conflictResolution, connected, vectorClock, lastSyncTime,
                 changeLog, syncDurations, now, calls, events, sent, applied,
                 raised, throwingHandlers, listeners,
                 throwingListeners, operands, budget>>
  /\ Notify

ForcePullNotConnected ==
  /\ ~connected
  /\ budget.rejects > 0
  /\ budget' = [budget EXCEPT !.rejects = @ - 1]
  /\ raised' = [op |-> "forcePull", error |-> NotConnected]
  /\ UNCHANGED <<conflictResolution, connected, vectorClock, lastSyncTime,
                 changeLog, stats, syncDurations, now, calls, force, events,
                 sent, applied, throwingHandlers, listeners,
                 throwingListeners, operands>>
  /\ Notify

ForcePullCall ==
  /\ connected
  /\ budget.force > 0
  /\ budget' = [budget EXCEPT !.force = @ - 1]
  /\ now' \in Clock
  /\ sent' = Append(sent, [type |-> "pull", agentId |-> AgentId,
                           tenantId |-> TenantId, vectorClock |-> vectorClock,
                           timestamp |-> now'])
  /\ force' = Append(force, [op |-> "forcePull", updates |-> <<>>])
  /\ UNCHANGED <<conflictResolution, connected, vectorClock, lastSyncTime,
                 changeLog, stats, syncDurations, calls, events, applied, raised,
                 throwingHandlers, listeners,
                 throwingListeners, operands>>
  /\ Notify

\* Faulty variant of ForcePullReturn: the pulled updates are handed to the
\* storage applier.
ForcePullReturnApplies(i, updates) ==
  /\ i \in DOMAIN force
  /\ force[i].op = "forcePull"
  /\ Len(updates) <= budget.remote
  /\ budget' = [budget EXCEPT !.remote = @ - Len(updates)]
  /\ stats' = [stats EXCEPT !.totalPulled = @ + Len(updates)]
  /\ force' = RemoveAt(force, i)
  /\ applied' = applied \o [j \in 1..Len(updates) |->
                              [cycle |-> 0, idx |-> j, update |-> updates[j]]]
  /\ UNCHANGED <<conflictResolution, connected, vectorClock, lastSyncTime,
                 changeLog, syncDurations, now, calls, events, sent,
                 raised, throwingHandlers, listeners,
                 throwingListeners, operands>>
  /\ Notify

ForcePullReturn(i, updates) ==
  /\ i \in DOMAIN force
  /\ force[i].op = "forcePull"
  /\ Len(updates) <= budget.remote
  /\ budget' = [budget EXCEPT !.remote = @ - Len(updates)]
  /\ stats' = [stats EXCEPT !.totalPulled = @ + Len(updates)]
  /\ force' = RemoveAt(force, i)
  /\ UNCHANGED <<conflictResolution, connected, vectorClock, lastSyncTime,
                 changeLog, syncDurations, now, calls, events, sent, applied,
                 raised, throwingHandlers, listeners,
                 throwingListeners, operands>>
  /\ Notify

\* sendSyncMessage raises in forcePush or forcePull: the error goes to the caller.
ForceRaise(i) ==
  /\ i \in DOMAIN force
  /\ raised' = [op |-> force[i].op, error |-> TransportFailure]
  /\ force' = RemoveAt(force, i)
  /\ UNCHANGED <<conflictResolution, connected, vectorClock, lastSyncTime,
                 changeLog, stats, syncDurations, now, calls, events, sent,
                 applied, throwingHandlers, listeners,
                 throwingListeners, operands, budget>>
  /\ Notify

Next ==
  \/ Connect
  \/ Disconnect
  \/ \E listener \in ListenerIds : AddEventListener(listener)
  \/ \E listener \in ListenerIds : RemoveEventListener(listener)
  \/ \E id \in RecordIds : RecordChange(id)
  \/ SyncNotConnected
  \/ \E c \in Cycles : SyncCall(c)
  \/ \E c \in Cycles : \E remoteUpdates \in SeqsUpTo(RemoteUpdates, budget.remote) :
       PullReturn(c, remoteUpdates)
  \/ \E c \in Cycles : PullRaise(c)
  \/ \E c \in Cycles : ApplyReturn(c)
  \/ \E c \in Cycles : ApplyRaise(c)
  \/ \E c \in Cycles : Resume(c)
  \/ \E c \in Cycles : PushReturn(c)
  \/ \E c \in Cycles : PushRaise(c)
  \/ ForcePushNotConnected
  \/ \E updates \in SeqsUpTo(ForceUpdates, MaxForceLen) : ForcePushCall(updates)
  \/ \E i \in 1..MaxForce : ForcePushReturn(i)
  \/ ForcePullNotConnected
  \/ ForcePullCall
  \/ \E i \in 1..MaxForce : \E updates \in SeqsUpTo(RemoteUpdates, budget.remote) :
       ForcePullReturn(i, updates)
  \/ \E i \in 1..MaxForce : ForceRaise(i)

Spec == Init /\ [][Next]_vars

(***************************************************************************)
(* The hub with collaborators that answer: a transport call and an applier *)
(* call that is outstanding returns or raises, and a call of sync whose    *)
(* awaited promise has settled runs on.                                    *)
(***************************************************************************)
Settles(c) ==
  \/ \E remoteUpdates \in SeqsUpTo(RemoteUpdates, MaxRemote) : PullReturn(c, remoteUpdates)
  \/ PullRaise(c)
  \/ ApplyReturn(c)
  \/ ApplyRaise(c)
  \/ Resume(c)
  \/ PushReturn(c)
  \/ PushRaise(c)

LiveSpec == Spec /\ \A c \in Cycles : WF_vars(Settles(c))

(***************************************************************************)
(* The vector clock utilities on their own: compareVectorClocks,           *)
(* mergeVectorClocks and incrementVectorClock are exported functions; a    *)
(* caller gives them any clocks.  The clocks given here have any of the    *)
(* agents as keys, an entry 0 included, and entries up to MaxTick.         *)
(***************************************************************************)
Clocks == UNION {[D -> 0..MaxTick] : D \in SUBSET Agents}

\* No call is made on the hub.
Resting ==
  [syncs |-> 0, records |-> 0, remote |-> 0, connects |-> 0,
   disconnects |-> 0, rejects |-> 0, force |-> 0, repeats |-> 0,
   listens |-> 0, until |-> 0]

hubVars == <<conflictResolution, connected, vectorClock, lastSyncTime, changeLog,
             stats, syncDurations, now, calls, force, events, sent, applied,
             raised, throwingHandlers, listeners, throwingListeners, delivered,
             budget>>

ClockInit ==
  /\ Constructed(<<DefaultStrategy, Resting, {}, {}>>)
  /\ operands \in [a : Clocks, b : Clocks, c : Clocks, id : {""},
                   op : {"none"}, out : {<<>>}]

Compare ==
  /\ operands.op = "none"
  /\ operands' = [operands EXCEPT
                    !.op = "compare",
                    !.out = compareVectorClocks(operands.a, operands.b)]
  /\ UNCHANGED hubVars

Merge ==
  /\ operands.op = "none"
  /\ operands' = [operands EXCEPT
                    !.op = "merge",
                    !.out = mergeVectorClocks(operands.a, operands.b)]
  /\ UNCHANGED hubVars

Increment(agentId) ==
  /\ operands.op = "none"
  /\ operands' = [operands EXCEPT
                    !.op = "increment",
                    !.id = agentId,
                    !.out = incrementVectorClock(operands.a, agentId)]
  /\ UNCHANGED hubVars

ClockNext ==
  \/ Compare
  \/ Merge
  \/ \E agentId \in Agents : Increment(agentId)

ClockSpec == ClockInit /\ [][ClockNext]_vars

(***************************************************************************)
(* resolveConflict on its own, with updates that carry an operation and a  *)
(* payload: the hub, constructed with any strategy, resolves one conflict  *)
(* between a change log and a remote update.                               *)
(***************************************************************************)
\* Operation and payload of an update.
Payloads == {[operation |-> "insert", data |-> "x"],
             [operation |-> "delete", data |-> "y"]}

PayloadClocks == {[k \in {"A"} |-> 1], [k \in Agents |-> IF k = "B" THEN 1 ELSE 0]}

Update(id, payload, clock, timestamp) ==
  [id |-> id, operation |-> payload.operation, data |-> payload.data,
   vectorClock |-> clock, timestamp |-> timestamp]

FullUpdates ==
  {Update(id, payload, clock, timestamp) :
     id \in RecordIds, payload \in Payloads, clock \in PayloadClocks,
     timestamp \in 0..MaxNow}

\* Change logs: empty, one entry, or two entries of which the second repeats
\* the payload and the clock of the first.
PendingLogs ==
  {<<>>} \cup {<<u>> : u \in FullUpdates}
    \cup {<<u, [u EXCEPT !.id = id, !.timestamp = timestamp]>> :
            u \in FullUpdates, id \in RecordIds, timestamp \in 0..MaxNow}

Conflicts ==
  [log : PendingLogs, clock : PayloadClocks, remoteUpdate : FullUpdates,
   t : 0..MaxNow]

ResolverInit ==
  /\ \E strategy \in Strategies : Constructed(<<strategy, Resting, {}, {}>>)
  /\ operands \in [a : Conflicts, b : {<<>>}, c : {<<>>}, id : {""},
                   op : {"none"}, out : {<<>>}]

Resolve ==
  /\ operands.op = "none"
  /\ operands' = [operands EXCEPT
                    !.op = "resolve",
                    !.out = resolveConflict(operands.a.log, operands.a.clock,
                                            conflictResolution,
                                            operands.a.remoteUpdate, operands.a.t)]
  /\ UNCHANGED hubVars

ResolverNext == Resolve

ResolverSpec == ResolverInit /\ [][ResolverNext]_vars

(***************************************************************************)
(* Notions the properties below are stated with.                           *)
(***************************************************************************)
Range(q) == {q[i] : i \in 1..Len(q)}

IsPrefix(p, q) == Len(p) <= Len(q) /\ \A i \in 1..Len(p) : p[i] = q[i]

\* The conflicts call c has resolved so far, in order.
ConflictsOf(c) == calls[c].conflicts \o calls[c].ret

\* The indexes of the applier calls of call c, in the order of the calls.
AppliedIdx(c) ==
  LET mine == SelectSeq(applied, LAMBDA x : x.cycle = c)
  IN  [i \in 1..Len(mine) |-> mine[i].idx]

\* The numbers of a finite set, ascending.
RECURSIVE Ascending(_)
Ascending(S) ==
  IF S = {} THEN <<>>
  ELSE LET m == CHOOSE x \in S : \A y \in S : y <= x
       IN  Append(Ascending(S \ {m}), m)

\* This step takes call c into processRemoteUpdate of its next update, which
\* runs to its await or to its return.
Processes(c) ==
  /\ Len(calls'[c].cmp) = Len(calls[c].cmp) + 1
  /\ calls'[c].error = ""

\* That update, and the conflict the step resolved (<<>> if it resolved none).
Processed(c) == calls'[c].remoteUpdates[calls'[c].idx]

Resolved(c) == calls'[c].ret

\* This step is the return of the push of call c / the raise of that push.
PushRaises(c) ==
  /\ calls[c].pc = "push"
  /\ calls'[c].pc = "failed"
  /\ calls'[c].error = TransportFailure

PushReturns(c) == calls[c].pc = "push" /\ calls'[c].pc # "push" /\ ~PushRaises(c)

(***************************************************************************)
(* C1: an update that recordChange appends while a sync cycle awaits its   *)
(* push (after the cycle took its snapshot of the change log, before it    *)
(* clears the log) is still in the change log when the cycle finishes.     *)
(***************************************************************************)
C1_RecordedDuringPushIsKept ==
  [][\A c \in Cycles :
       PushReturns(c) =>
         \A i \in 1..Len(changeLog) :
           changeLog[i] \notin Range(calls[c].localChanges)
             => changeLog[i] \in Range(changeLog')]_vars

(***************************************************************************)
(* C2: on one hub at most one sync cycle is in progress at any time.       *)
(***************************************************************************)
C2_AtMostOneSyncInFlight ==
  Cardinality({c \in Cycles : calls[c].pc \in InFlight}) <= 1

(***************************************************************************)
(* C3: when the push of a sync cycle raises, the change log afterwards     *)
(* holds every entry it held when the push was attempted, in the same      *)
(* order.                                                                  *)
(***************************************************************************)
C3_FailedPushLeavesLog ==
  [][\A c \in Cycles :
       PushRaises(c) => IsPrefix(calls[c].localChanges, changeLog')]_vars

\* What the code does guarantee: the step in which the push raises does not
\* touch the change log.
C3_FailedPushStepKeepsLog ==
  [][\A c \in Cycles : PushRaises(c) => changeLog' = changeLog]_vars

(***************************************************************************)
(* C4: sync, forcePush and forcePull called on a disconnected hub fail     *)
(* with the not-connected error and change nothing: no sync cycle and no   *)
(* forced call starts, and the clock, the change log, the statistics, the  *)
(* events emitted and the messages sent stay as they were.                 *)
(***************************************************************************)
C4_NotConnectedChangesNothing ==
  [][/\ ~connected =>
          /\ \A c \in Cycles : calls[c].pc = "idle" => calls'[c].pc = "idle"
          /\ Len(force') <= Len(force)
     /\ budget'.rejects < budget.rejects =>
          /\ ~connected
          /\ raised'.error = NotConnected
          /\ raised'.op \in {"sync", "forcePush", "forcePull"}
          /\ UNCHANGED <<connected, vectorClock, lastSyncTime, changeLog, stats,
                         syncDurations, calls, force, events, sent, applied>>]_vars

\* A sync call was rejected on a hub that had completed a cycle and holds a
\* pending change.
C4_Witness ==
  /\ raised = [op |-> "sync", error |-> NotConnected]
  /\ stats.totalSyncs = 1
  /\ changeLog # <<>>

(***************************************************************************)
(* C5: a pulled update whose conflict is resolved in favour of the remote  *)
(* version is handed to the storage applier during that sync cycle.        *)
(***************************************************************************)
C5_RemoteResolutionIsApplied ==
  \A c \in Cycles :
    calls[c].pc = "done" =>
      \A i \in 1..Len(calls[c].conflicts) :
        calls[c].conflicts[i].resolution = "remote" =>
          \E j \in 1..Len(applied) :
            /\ applied[j].cycle = c
            /\ applied[j].update = calls[c].conflicts[i].remoteVersion

(***************************************************************************)
(* C6: in a sync cycle every pulled update that is not a conflict is       *)
(* handed to the storage applier exactly once, in the order in which the   *)
(* pull returned the updates; a cycle that completes has processed every   *)
(* update of its pull.                                                     *)
(***************************************************************************)
C6_NonConflictsAppliedOnceInOrder ==
  \A c \in Cycles :
    LET cy == calls[c]
        nonConflicts == {i \in 1..Len(cy.cmp) : cy.cmp[i] # "concurrent"}
        mine == SelectSeq(applied, LAMBDA x : x.cycle = c /\ x.idx \in nonConflicts)
    IN  /\ [i \in 1..Len(mine) |-> mine[i].idx] = Ascending(nonConflicts)
        /\ \A i \in 1..Len(mine) : mine[i].update = cy.remoteUpdates[mine[i].idx]
        /\ cy.pc = "done" => Len(cy.cmp) = Len(cy.remoteUpdates)

\* A completed cycle whose pull returned two updates, neither a conflict.
C6_Witness ==
  \E c \in Cycles :
    /\ calls[c].pc = "done"
    /\ Len(calls[c].remoteUpdates) = 2
    /\ calls[c].conflicts = <<>>
    /\ AppliedIdx(c) = <<1, 2>>

(***************************************************************************)
(* C7: a pulled update is treated as a conflict if and only if the hub's   *)
(* clock at the moment the update is processed is concurrent with the      *)
(* update's clock, and the conflictCount of the result counts these        *)
(* updates; a hub whose clock is {A:1} and that pulls one update with      *)
(* clock {A:0, B:1} returns conflictCount = 1.                             *)
(***************************************************************************)
C7_ConflictIffConcurrent ==
  [][\A c \in Cycles :
       /\ Processes(c) =>
            /\ (Resolved(c) # <<>>)
                 <=> compareVectorClocks(vectorClock, Processed(c).vectorClock)
                       = "concurrent"
            /\ (Resolved(c) # <<>>) <=> applied' = applied
            /\ calls'[c].cmp[calls'[c].idx]
                 = compareVectorClocks(vectorClock, Processed(c).vectorClock)
            /\ (/\ vectorClock = [k \in {"A"} |-> 1]
                /\ Processed(c).vectorClock = [k \in {"A", "B"} |-> IF k = "B" THEN 1 ELSE 0])
                 => Resolved(c) # <<>>
       /\ (calls[c].pc # "done" /\ calls'[c].pc = "done") =>
            calls'[c].result[1].conflictCount
              = Cardinality({i \in 1..Len(calls'[c].cmp) :
                               calls'[c].cmp[i] = "concurrent"})]_vars

\* The scenario: clock {A:1}, one pulled update with clock {A:0, B:1}, one
\* conflict in the result.
C7_Witness ==
  \E c \in Cycles :
    /\ calls[c].pc = "done"
    /\ vectorClock = [k \in {"A"} |-> 1]
    /\ Len(calls[c].remoteUpdates) = 1
    /\ calls[c].remoteUpdates[1].vectorClock
         = [k \in {"A", "B"} |-> IF k = "B" THEN 1 ELSE 0]
    /\ calls[c].result[1].conflictCount = 1

\* The change log holds a pending version of the record of update u, and v is
\* the one a scan of the log from its head finds.
PendingVersion(u, v) ==
  \E i \in 1..Len(changeLog) :
    /\ changeLog[i] = v
    /\ v.id = u.id
    /\ \A j \in 1..(i - 1) : changeLog[j].id # u.id

NoPendingVersion(u) == \A i \in 1..Len(changeLog) : changeLog[i].id # u.id

\* Call c has resolved a conflict between a pending local version and a remote
\* update with the given resolution and timestamps.
ResolvedPending(c, resolution, localTs, remoteTs) ==
  \E i \in 1..Len(ConflictsOf(c)) :
    LET r == ConflictsOf(c)[i]
    IN  /\ r.resolution = resolution
        /\ r.localVersion \in Range(changeLog)
        /\ r.localVersion.id = r.recordId
        /\ r.localVersion.timestamp = localTs
        /\ r.remoteVersion.timestamp = remoteTs

(***************************************************************************)
(* C8: under last-write-wins a conflict on a record with a pending local   *)
(* version resolves to remote if the remote update's timestamp is strictly *)
(* greater than the local version's, and to local otherwise.               *)
(***************************************************************************)
C8_LastWriteWins ==
  [][\A c \in Cycles :
       (/\ Processes(c)
        /\ Resolved(c) # <<>>
        /\ conflictResolution = "last-write-wins"
        /\ ~NoPendingVersion(Processed(c))) =>
          LET r == Resolved(c)[1]
          IN  /\ PendingVersion(Processed(c), r.localVersion)
              /\ r.remoteVersion = Processed(c)
              /\ r.resolution =
                   IF r.remoteVersion.timestamp > r.localVersion.timestamp
                   THEN "remote" ELSE "local"]_vars

\* Local timestamp 0 and remote timestamp 1 resolved to remote.
C8_Witness ==
  /\ conflictResolution = "last-write-wins"
  /\ \E c \in Cycles : ResolvedPending(c, "remote", 0, 1)

(***************************************************************************)
(* C9: under first-write-wins, for every local and remote timestamp from 0 *)
(* on, a conflict resolves to remote if the remote update's timestamp is   *)
(* strictly less than the pending local version's, and to local            *)
(* otherwise; with no pending local version remote wins.                   *)
(***************************************************************************)
C9_FirstWriteWins ==
  [][\A c \in Cycles :
       (/\ Processes(c)
        /\ Resolved(c) # <<>>
        /\ conflictResolution = "first-write-wins") =>
          LET r == Resolved(c)[1]
          IN  IF NoPendingVersion(Processed(c))
              THEN r.resolution = "remote"
              ELSE /\ PendingVersion(Processed(c), r.localVersion)
                   /\ r.resolution =
                        IF r.remoteVersion.timestamp < r.localVersion.timestamp
                        THEN "remote" ELSE "local"]_vars

\* What the code does: a pending local version with timestamp 0 counts as
\* having none.
C9_FirstWriteWinsFalsyZero ==
  [][\A c \in Cycles :
       (/\ Processes(c)
        /\ Resolved(c) # <<>>
        /\ conflictResolution = "first-write-wins") =>
          LET r == Resolved(c)[1]
          IN  IF NoPendingVersion(Processed(c)) \/ r.localVersion.timestamp = 0
              THEN r.resolution = "remote"
              ELSE /\ PendingVersion(Processed(c), r.localVersion)
                   /\ r.resolution =
                        IF r.remoteVersion.timestamp < r.localVersion.timestamp
                        THEN "remote" ELSE "local"]_vars

(***************************************************************************)
(* C10: strategy merge always resolves merge, and every strategy other     *)
(* than last-write-wins, first-write-wins and merge (custom included)      *)
(* resolves skip, whatever the timestamps and whether or not a local       *)
(* version is pending.                                                     *)
(***************************************************************************)
C10_MergeAndSkip ==
  [][\A c \in Cycles :
       (Processes(c) /\ Resolved(c) # <<>>) =>
          /\ conflictResolution = "merge" => Resolved(c)[1].resolution = "merge"
          /\ conflictResolution \notin {"last-write-wins", "first-write-wins", "merge"}
               => Resolved(c)[1].resolution = "skip"]_vars

\* Strategy custom skipped a conflict of a newer remote update with a pending
\* local version.
C10_Witness ==
  /\ conflictResolution = "custom"
  /\ \E c \in Cycles : ResolvedPending(c, "skip", 0, 1)

\* The push of call c has returned: the call completed, or failed afterwards
\* in its sync_completed handler.
PushReturned(c) ==
  /\ calls[c].localChanges # <<>>
  /\ \/ calls[c].pc = "done"
     \/ calls[c].pc = "failed" /\ calls[c].error = HandlerFailure

(***************************************************************************)
(* C11: no recorded update is counted twice: a change-log entry is in the  *)
(* data of at most one push message that was sent successfully, so it      *)
(* adds to the pushCount of at most one sync cycle and at most once to     *)
(* totalPushed.                                                            *)
(***************************************************************************)
C11_PushedAtMostOnce ==
  /\ \A c, d \in Cycles :
       (c # d /\ PushReturned(c) /\ PushReturned(d)) =>
         Range(calls[c].localChanges) \cap Range(calls[d].localChanges) = {}
  /\ (\A i \in 1..Len(sent) : sent[i].type = "push" =>
        \E c \in Cycles : sent[i].data = calls[c].localChanges) =>
       stats.totalPushed
         <= Cardinality(UNION {Range(calls[c].localChanges) : c \in Cycles})

\* This step takes call c into its push leg / completes call c.
EntersPush(c) == calls[c].pc \in {"pull", "next"} /\ calls'[c].pc = "push"

Completes(c) == calls[c].pc \in InFlight /\ calls'[c].pc = "done"

PushMessages == SelectSeq(sent, LAMBDA m : m.type = "push")

(***************************************************************************)
(* C12: a sync cycle that succeeds sends exactly one push message, with    *)
(* the entire change log in insertion order, when the log is non-empty at  *)
(* its push leg, and none when it is empty; its pushCount is the number of *)
(* entries the log held and, no recordChange having interleaved, the log   *)
(* is empty afterwards.  One recordChange followed by sync with an empty   *)
(* pull gives pushCount = 1 and an empty log.                              *)
(***************************************************************************)
C12_PushCarriesWholeLog ==
  [][/\ \A c \in Cycles :
          /\ EntersPush(c) =>
               /\ changeLog # <<>>
               /\ sent' = Append(sent, sent'[Len(sent')])
               /\ sent'[Len(sent')].type = "push"
               /\ sent'[Len(sent')].data = changeLog
          /\ Completes(c) =>
               /\ sent' = sent
               /\ calls'[c].result[1].pushCount = Len(calls'[c].localChanges)
               /\ IF calls[c].pc = "push"
                  THEN changeLog = calls[c].localChanges => changeLog' = <<>>
                  ELSE changeLog = <<>> /\ calls'[c].localChanges = <<>>
     /\ Len(sent') > Len(sent) /\ sent'[Len(sent')].type = "push" =>
          \/ Len(force') > Len(force)
          \/ Cardinality({c \in Cycles : EntersPush(c)}) = 1]_vars

\* recordChange(r1), then a sync whose pull returned nothing: one push
\* message, pushCount 1, the log empty.
C12_Witness ==
  \E c \in Cycles :
    /\ calls[c].pc = "done"
    /\ calls[c].remoteUpdates = <<>>
    /\ calls[c].result[1].pushCount = 1
    /\ Len(PushMessages) = 1
    /\ PushMessages[1].data = calls[c].localChanges
    /\ changeLog = <<>>

\* This step is the catch block of call c alone: the pull, the processing of
\* a pulled update or the push, which the call awaited, has raised.
CycleRaises(c) ==
  /\ calls[c].pc \in InFlight
  /\ calls'[c].pc = "failed"
  /\ Len(events') = Len(events) + 1

\* The statistics are committed only in a step that emits sync_completed.
StatsCommittedOnCompletion ==
  stats' # stats /\ calls' # calls =>
    \E i \in (Len(events) + 1)..Len(events') : events'[i].type = "sync_completed"

(***************************************************************************)
(* C13: when the pull, the processing of a pulled update or the push       *)
(* raises in a sync cycle, the hub emits sync_failed with the error's      *)
(* message, raises that same error to the caller of sync, and no field of  *)
(* the statistics is changed by the cycle.                                 *)
(***************************************************************************)
C13_FailedCycleReraises ==
  [][/\ \A c \in Cycles :
          CycleRaises(c) =>
            /\ events'[Len(events')]
                 = [type |-> "sync_failed", agentId |-> AgentId,
                    error |-> calls'[c].error]
            /\ calls'[c].error \in {TransportFailure, ApplierFailure, HandlerFailure}
            /\ raised' = [op |-> "sync", error |-> calls'[c].error]
            /\ stats' = stats /\ syncDurations' = syncDurations
     /\ StatsCommittedOnCompletion]_vars

\* What the code does guarantee: the event and the untouched statistics; the
\* error that reaches the caller is the one of the cycle unless a handler of
\* sync_failed, registered with on(), throws its own.
C13_FailedCycleKeepsStats ==
  [][/\ \A c \in Cycles :
          CycleRaises(c) =>
            /\ events'[Len(events')]
                 = [type |-> "sync_failed", agentId |-> AgentId,
                    error |-> calls'[c].error]
            /\ raised'.op = "sync"
            /\ raised'.error =
                 IF Throws("sync_failed") THEN HandlerFailure ELSE calls'[c].error
            /\ stats' = stats /\ syncDurations' = syncDurations
     /\ StatsCommittedOnCompletion]_vars

\* This step is the start of sync cycle c (the connected check passed and
\* sync_started was delivered).
Starts(c) == calls[c].pc = "idle" /\ calls'[c].pc = "pull"

\* The clock b is the clock a with the hub's own dimension advanced by one.
OwnTick(a, b) ==
  /\ DOMAIN b = DOMAIN a \cup {AgentId}
  /\ b[AgentId] = Get(a, AgentId) + 1
  /\ \A k \in DOMAIN a \ {AgentId} : b[k] = a[k]

(***************************************************************************)
(* C14: every sync call that starts a cycle advances the hub's own clock   *)
(* dimension by exactly one and leaves the other dimensions alone, and no  *)
(* later step of a cycle whose pull returned no updates changes the clock; *)
(* so after N successful sync calls, with no recordChange and only empty   *)
(* pulls, the own dimension is its value before the first call plus N (N   *)
(* itself on a hub on which nothing was recorded).                         *)
(***************************************************************************)
C14_ClockAdvancesPerSync ==
  /\ []((/\ changeLog = <<>>
         /\ PushMessages = <<>>
         /\ \A c \in Cycles : /\ calls[c].pc \in {"idle", "done"}
                              /\ calls[c].remoteUpdates = <<>>)
          => vectorClock
               = [k \in {AgentId} |->
                    Cardinality({c \in Cycles : calls[c].pc = "done"})])
  /\ [][\A c \in Cycles :
          /\ Starts(c) => OwnTick(vectorClock, vectorClock')
          /\ (/\ calls[c].pc \in InFlight
              /\ calls'[c] # calls[c]
              /\ calls'[c].remoteUpdates = <<>>) => vectorClock' = vectorClock]_vars

\* Two sync cycles completed on a hub on which nothing was recorded: the own
\* dimension went from 0 to 2.
C14_Witness ==
  /\ \A c \in 1..2 : calls[c].pc = "done" /\ calls[c].remoteUpdates = <<>>
  /\ changeLog = <<>>
  /\ PushMessages = <<>>
  /\ vectorClock = [k \in {AgentId} |-> 2]

\* This step is a call of recordChange.
Records == budget'.records < budget.records

(***************************************************************************)
(* C15: recordChange, on a connected and on a disconnected hub alike,      *)
(* stamps the update with the hub's clock as it was before the call,       *)
(* appends it as the last entry of the change log, and then advances the   *)
(* hub's own clock dimension by exactly one, all other dimensions staying  *)
(* as they were.                                                           *)
(***************************************************************************)
C15_RecordChangeStampsAndTicks ==
  [][Records =>
       /\ Len(changeLog') = Len(changeLog) + 1
       /\ changeLog' = Append(changeLog, changeLog'[Len(changeLog')])
       /\ changeLog'[Len(changeLog')].vectorClock = vectorClock
       /\ OwnTick(vectorClock, vectorClock')
       /\ connected' = connected]_vars

\* An update recorded on a hub whose clock had taken over a dimension of
\* agent B: the stamp is the clock before the call.
C15_Witness ==
  /\ changeLog # <<>>
  /\ changeLog[Len(changeLog)].vectorClock = [k \in Agents |-> 1]
  /\ vectorClock = [k \in Agents |-> IF k = AgentId THEN 2 ELSE 1]

Adds(s, t, counter, n) == t = [s EXCEPT ![counter] = @ + n]

(***************************************************************************)
(* C17: on a connected hub forcePush(updates) sends one push message with  *)
(* the given updates and, when the send returned, adds their number to     *)
(* totalPushed; forcePull sends one pull message and, when it returned,    *)
(* adds the number of updates it got to totalPulled.  Neither changes      *)
(* totalSyncs, totalConflicts, totalResolved, the vector clock or the      *)
(* change log, and forcePull hands nothing to the storage applier and      *)
(* detects no conflict.                                                    *)
(***************************************************************************)
C17_ForcedLegsOnly ==
  [][force' # force =>
       /\ UNCHANGED <<vectorClock, changeLog, calls, applied, events, connected,
                      lastSyncTime, syncDurations>>
       /\ IF Len(force') > Len(force)
          THEN LET f == force'[Len(force')]
                   m == sent'[Len(sent')]
               IN  /\ connected
                   /\ sent' = Append(sent, m)
                   /\ m.type = IF f.op = "forcePush" THEN "push" ELSE "pull"
                   /\ f.op = "forcePush" => m.data = f.updates
                   /\ m.vectorClock = vectorClock
                   /\ stats' = stats
          ELSE /\ sent' = sent
               /\ \E i \in DOMAIN force :
                    /\ force' = RemoveAt(force, i)
                    /\ \/ /\ raised' = [op |-> force[i].op, error |-> TransportFailure]
                          /\ stats' = stats
                       \/ /\ raised' = raised
                          /\ IF force[i].op = "forcePush"
                             THEN Adds(stats, stats', "totalPushed",
                                       Len(force[i].updates))
                             ELSE Adds(stats, stats', "totalPulled",
                                       budget.remote - budget'.remote)]_vars

\* A forcePush of two updates and a forcePull that got one update have
\* returned: the counters show them, and nothing else has happened.
C17_Witness ==
  /\ force = <<>>
  /\ Len(sent) = 2
  /\ stats.totalPushed = 2
  /\ stats.totalPulled = 1
  /\ stats.totalSyncs = 0
  /\ applied = <<>>
  /\ changeLog # <<>>
  /\ raised = NoError

\* This step is a call of connect on a disconnected hub that raises an error
\* to its caller.
ConnectRaises ==
  /\ budget'.connects < budget.connects
  /\ raised'.op = "connect"

(***************************************************************************)
(* C18: whenever connect raises an error to its caller the hub is          *)
(* disconnected afterwards.                                                *)
(***************************************************************************)
C18_FailedConnectStaysDisconnected ==
  [][ConnectRaises => ~connected']_vars

\* What the code does: connected is set before anything in the try block can
\* fail and the catch block does not reset it, so a connect that raises
\* leaves the hub connected.
C18_FailedConnectLeavesConnected ==
  [][ConnectRaises => connected' /\ lastSyncTime' = now']_vars

\* This step is connect on a connected hub or disconnect on a disconnected one.
Repeats == budget'.repeats < budget.repeats

(***************************************************************************)
(* C19: connect on a connected hub and disconnect on a disconnected hub    *)
(* raise no error, emit no event and change nothing of the hub; a          *)
(* connected event is emitted only in a step that takes the hub from       *)
(* disconnected to connected, a disconnected event only in one that takes  *)
(* it from connected to disconnected, and each such step emits it.         *)
(***************************************************************************)
C19_RepeatedConnectIsNoOp ==
  [][/\ Repeats =>
          UNCHANGED <<conflictResolution, connected, vectorClock, lastSyncTime,
                      changeLog, stats, syncDurations, now, calls, force,
                      events, sent, applied, raised, throwingHandlers, listeners,
                 throwingListeners, operands>>
     /\ \A i \in (Len(events) + 1)..Len(events') :
          /\ events'[i].type = "connected" => ~connected /\ connected'
          /\ events'[i].type = "disconnected" => connected /\ ~connected'
     /\ connected' # connected =>
          /\ Len(events') = Len(events) + 1
          /\ events'[Len(events')].type
               = IF connected' THEN "connected" ELSE "disconnected"]_vars

\* connect, disconnect and connect, with a repeated call in between: one
\* event for each of the three transitions and none for the repeated call.
C19_Witness ==
  /\ connected
  /\ budget.repeats < Lifecycle.repeats
  /\ budget.connects = Lifecycle.connects - 2
  /\ budget.disconnects = Lifecycle.disconnects - 1
  /\ [i \in 1..Len(events) |-> events[i].type]
       = <<"connected", "disconnected", "connected">>

(***************************************************************************)
(* C20: disconnect and a later connect leave the vector clock and the      *)
(* change log as they are: the entries recorded before the disconnect or   *)
(* while the hub was disconnected are in the log, in their order, after    *)
(* the reconnect.                                                          *)
(***************************************************************************)
C20_ReconnectKeepsClockAndLog ==
  [][(\/ connected' # connected
      \/ budget'.connects < budget.connects
      \/ budget'.disconnects < budget.disconnects)
       => vectorClock' = vectorClock /\ changeLog' = changeLog]_vars

\* A hub that was connected, disconnected and connected again holds the entry
\* that was recorded, and the clock that recordChange advanced.
C20_Witness ==
  /\ connected
  /\ [i \in 1..Len(events) |-> events[i].type]
       = <<"connected", "disconnected", "connected">>
  /\ Len(changeLog) = 1
  /\ changeLog[1].vectorClock = [k \in {AgentId} |-> 0]
  /\ vectorClock = [k \in {AgentId} |-> 1]
  /\ throwingHandlers = {}

\* Every event this step hands to emitEvent reaches all the listeners that
\* are registered, those after a listener that throws included.
AllListenersReached ==
  \A i \in (Len(events) + 1)..Len(events') : delivered'[i] = listeners

\* After this step no call has raised, or holds, an error thrown by a
\* recipient of an event.
NoEventErrorReachesCaller ==
  /\ raised'.error # HandlerFailure
  /\ \A c \in Cycles : calls'[c].error # HandlerFailure

(***************************************************************************)
(* C21: when a recipient registered for the hub's events throws while it   *)
(* handles an event, every other registered listener still receives the    *)
(* event, the exception does not reach the caller of sync, connect or      *)
(* disconnect, and the sync cycle goes on to the outcome it would have had. *)
(***************************************************************************)
C21_ListenerExceptionsContained ==
  [][AllListenersReached /\ NoEventErrorReachesCaller]_vars

\* What the code does guarantee: the listeners of addEventListener are
\* isolated from each other and from the caller; an exception reaches the
\* caller only from a handler registered with on().
C21_AddedListenersIsolated ==
  [][/\ AllListenersReached
     /\ throwingHandlers = {} => NoEventErrorReachesCaller
     /\ \A c \in Cycles :
          (calls[c].pc \in InFlight /\ calls'[c].pc = "failed"
             /\ throwingHandlers = {})
            => calls'[c].error \in {TransportFailure, ApplierFailure}]_vars

\* This step is a call of addEventListener or removeEventListener.
Registers == budget'.listens < budget.listens

(***************************************************************************)
(* C22: each event is handed to the listeners of addEventListener in the   *)
(* order in which they were registered, once each: a listener that is      *)
(* added goes behind those registered before it, a listener that is        *)
(* removed receives no later event, and the others keep their relative     *)
(* order.                                                                  *)
(***************************************************************************)
C22_ListenersInRegistrationOrder ==
  [][/\ AllListenersReached
     /\ Cardinality(Range(listeners')) = Len(listeners')
     /\ listeners' # listeners => Registers
     /\ Registers =>
          \E listener \in ListenerIds :
            \/ /\ listener \in Range(listeners)
               /\ listeners' = listeners
            \/ /\ listener \notin Range(listeners)
               /\ listeners' = Append(listeners, listener)
            \/ listeners' = SelectSeq(listeners, LAMBDA l : l # listener)]_vars

\* An event went to l1 and then l2, in the order of their registration; l1
\* was removed, and a later event went to l2 alone.
C22_Witness ==
  \E i, j \in 1..Len(delivered) :
    /\ i < j
    /\ delivered[i] = <<"l1", "l2">>
    /\ delivered[j] = <<"l2">>

\* The value of a clock in a dimension, as the specification reads it: a
\* dimension the clock has no entry for is 0.
At(clock, agentId) == IF agentId \in DOMAIN clock THEN clock[agentId] ELSE 0

\* A case on the dimensions in which u is above v, in which it is below.
Above(u, v) == {k \in Agents : At(u, k) > At(v, k)}

\* The clock without its entries that are 0.
Strip(clock) == [k \in {j \in DOMAIN clock : clock[j] # 0} |-> clock[k]]

Compared == operands.op = "compare"
Merged == operands.op = "merge"
Incremented == operands.op = "increment"

(***************************************************************************)
(* C23: with a key that a clock lacks read as 0, compare(a, b) is equal    *)
(* exactly when a and b agree in every dimension, before exactly when a is *)
(* nowhere above b and somewhere below, after exactly when a is nowhere    *)
(* below b and somewhere above, and concurrent exactly when a is somewhere *)
(* above and somewhere below b; compare(a, a) is equal, and a clock with   *)
(* an entry 0 compares equal to the clock without that entry.              *)
(***************************************************************************)
C23_CompareSemantics ==
  Compared =>
    LET a == operands.a
        b == operands.b
        out == operands.out
    IN  /\ out \in {"equal", "before", "after", "concurrent"}
        /\ out = "equal" <=> (Above(a, b) = {} /\ Above(b, a) = {})
        /\ out = "before" <=> (Above(a, b) = {} /\ Above(b, a) # {})
        /\ out = "after" <=> (Above(a, b) # {} /\ Above(b, a) = {})
        /\ out = "concurrent" <=> (Above(a, b) # {} /\ Above(b, a) # {})
        /\ a = b => out = "equal"
        /\ Strip(a) = Strip(b) => out = "equal"
        /\ compareVectorClocks(a, Strip(a)) = "equal"
        /\ compareVectorClocks(Strip(a), a) = "equal"

\* Two clocks that differ only by an entry 0 were compared, and a clock was
\* compared with one that has a key it lacks.
C23_Witness ==
  /\ Compared
  /\ operands.a # operands.b
  /\ operands.out = "equal"
  /\ \E k \in DOMAIN operands.a \ DOMAIN operands.b : operands.a[k] = 0

(***************************************************************************)
(* C24: compare(a, b) is before exactly when compare(b, a) is after, and   *)
(* the other way round; it is equal exactly when compare(b, a) is equal,   *)
(* and concurrent exactly when compare(b, a) is concurrent.                *)
(***************************************************************************)
C24_CompareAntisymmetric ==
  Compared =>
    LET out == operands.out
        back == compareVectorClocks(operands.b, operands.a)
    IN  /\ out = "before" <=> back = "after"
        /\ out = "after" <=> back = "before"
        /\ out = "equal" <=> back = "equal"
        /\ out = "concurrent" <=> back = "concurrent"

\* Two concurrent clocks were compared.
C24_Witness ==
  /\ Compared
  /\ operands.out = "concurrent"
  /\ compareVectorClocks(operands.b, operands.a) = "concurrent"

(***************************************************************************)
(* C25: merge(a, b) has the keys of a and of b and in each the larger of   *)
(* the two values; merge(a, b) = merge(b, a), merge(merge(a, b), c) =      *)
(* merge(a, merge(b, c)) and merge(a, a) = a.                              *)
(***************************************************************************)
C25_MergeIsPointwiseMax ==
  Merged =>
    LET a == operands.a
        b == operands.b
        c == operands.c
        out == operands.out
    IN  /\ DOMAIN out = DOMAIN a \cup DOMAIN b
        /\ \A k \in DOMAIN out :
             /\ out[k] >= At(a, k)
             /\ out[k] >= At(b, k)
             /\ out[k] \in {At(a, k), At(b, k)}
        /\ out = mergeVectorClocks(b, a)
        /\ mergeVectorClocks(out, c) = mergeVectorClocks(a, mergeVectorClocks(b, c))
        /\ mergeVectorClocks(a, a) = a

\* Two clocks were merged of which the first is above the second in one
\* dimension and has no entry in another that the second has.
C25_Witness ==
  /\ Merged
  /\ \E k \in DOMAIN operands.a \cap DOMAIN operands.b :
       operands.a[k] > operands.b[k]
  /\ DOMAIN operands.b \ DOMAIN operands.a # {}
  /\ operands.c # <<>>

(***************************************************************************)
(* C26: increment(clock, id) returns a clock that is clock[id] + 1 in the  *)
(* dimension id, where a clock without an entry for id counts as 0, and    *)
(* equal to clock in every other dimension; the clock it was given is as   *)
(* it was.                                                                 *)
(***************************************************************************)
C26_IncrementOneDimension ==
  [][(operands.op = "none" /\ operands'.op = "increment") =>
       LET clock == operands.a
           id == operands'.id
           out == operands'.out
       IN  /\ id \in DOMAIN out
           /\ out[id] = At(clock, id) + 1
           /\ DOMAIN out = DOMAIN clock \cup {id}
           /\ \A k \in DOMAIN out \ {id} : out[k] = clock[k]
           /\ operands'.a = clock]_vars

\* A clock with an entry for another agent and none for the one named was
\* incremented.
C26_Witness ==
  /\ Incremented
  /\ operands.id \notin DOMAIN operands.a
  /\ \E k \in DOMAIN operands.a : operands.a[k] > 0
  /\ operands.out[operands.id] = 1

(***************************************************************************)
(* C27: the result of a sync cycle that completes agrees with what the     *)
(* cycle did: pullCount is the number of updates the pull returned,        *)
(* conflictCount is the length of resolvedConflicts, resolvedConflicts     *)
(* holds the conflicts in the order in which their updates were received,  *)
(* pullCount is conflictCount plus the number of updates handed to the     *)
(* applier, and vectorClock is the hub's clock as the cycle completes.     *)
(***************************************************************************)
C27_ResultAgreesWithCycle ==
  [][\A c \in Cycles :
       Completes(c) =>
         LET cy == calls'[c]
             r == cy.result[1]
             concurrent == Ascending({i \in 1..Len(cy.cmp) : cy.cmp[i] = "concurrent"})
             handed == {i \in 1..Len(applied') : applied'[i].cycle = c}
         IN  /\ r.success
             /\ Len(cy.cmp) = Len(cy.remoteUpdates)
             /\ r.pullCount = Len(cy.remoteUpdates)
             /\ r.conflictCount = Len(r.resolvedConflicts)
             /\ Len(r.resolvedConflicts) = Len(concurrent)
             /\ \A i \in 1..Len(concurrent) :
                  /\ r.resolvedConflicts[i].remoteVersion
                       = cy.remoteUpdates[concurrent[i]]
                  /\ r.resolvedConflicts[i].recordId
                       = cy.remoteUpdates[concurrent[i]].id
             /\ r.pullCount = r.conflictCount + Cardinality(handed)
             /\ r.vectorClock = vectorClock']_vars

\* A cycle completed whose pull returned a conflict and an update that was
\* applied.
C27_Witness ==
  \E c \in Cycles :
    /\ calls[c].pc = "done"
    /\ calls[c].result[1].pullCount = 2
    /\ calls[c].result[1].conflictCount = 1
    /\ Len(AppliedIdx(c)) = 1

\* This step is the return of the applier to call c: processRemoteUpdate
\* merges the clocks and returns.
Merges(c) == calls[c].pc = "apply" /\ calls'[c].pc = "next"

\* The update call c has in processRemoteUpdate.
Current(c) == calls[c].remoteUpdates[calls[c].idx]

(***************************************************************************)
(* C28: when a pulled update that is no conflict has been processed, the   *)
(* hub's clock is merge(the clock the update was compared with, the        *)
(* update's clock), hence at least the update's clock in every dimension;  *)
(* the next update of the batch is compared with this merged clock.        *)
(***************************************************************************)
C28_ClockIsMergeOfCompared ==
  [][\A c \in Cycles :
       /\ Merges(c) =>
            /\ vectorClock' = mergeVectorClocks(calls[c].seen, Current(c).vectorClock)
            /\ \A k \in Agents : At(vectorClock', k) >= At(Current(c).vectorClock, k)
       /\ (Processes(c) /\ calls[c].pc = "next" /\ calls[c].ret = <<>>) =>
            calls'[c].seen = mergeVectorClocks(calls[c].seen, Current(c).vectorClock)]_vars

\* What the code does guarantee: the merge takes the hub's clock as it is
\* when the applier returns, so the clock afterwards is at least the update's
\* clock and at least the clock the update was compared with, and the next
\* update of the batch is compared with the hub's clock as it is then.
C28_ClockIsMergeOfCurrent ==
  [][\A c \in Cycles :
       /\ Merges(c) =>
            /\ vectorClock' = mergeVectorClocks(vectorClock, Current(c).vectorClock)
            /\ \A k \in Agents :
                 /\ At(vectorClock', k) >= At(Current(c).vectorClock, k)
                 /\ At(vectorClock', k) >= At(calls[c].seen, k)
       /\ Processes(c) =>
            /\ calls'[c].seen = vectorClock
            /\ calls'[c].cmp[calls'[c].idx]
                 = compareVectorClocks(vectorClock, Processed(c).vectorClock)]_vars

\* The number of events of a type among es.
CountOf(es, type) == Len(SelectSeq(es, LAMBDA e : e.type = type))

\* The events this step has emitted.
NewEvents == SubSeq(events', Len(events) + 1, Len(events'))

\* This step takes call c into processRemoteUpdate of an update that is a
\* conflict.
Detects(c) ==
  /\ Len(calls'[c].cmp) = Len(calls[c].cmp) + 1
  /\ calls'[c].cmp[Len(calls'[c].cmp)] = "concurrent"

\* The events of the conflicts, step by step and in total: a step that
\* detects a conflict emits conflict_detected and conflict_resolved for the
\* record of the update, nothing else, and the resolution of the event is the
\* one the call records; no other step emits either event; a cycle that
\* completes returns the conflicts it recorded; there are as many events of
\* either type as conflicts recorded.
ConflictEventsPaired ==
  /\ \A c \in Cycles :
       /\ Detects(c) =>
            LET u == calls'[c].remoteUpdates[Len(calls'[c].cmp)]
            IN  /\ Len(NewEvents) = 2
                /\ NewEvents[1].type = "conflict_detected"
                /\ NewEvents[1].recordId = u.id
                /\ NewEvents[2].type = "conflict_resolved"
                /\ NewEvents[2].recordId = u.id
                /\ calls'[c].ret # <<>>
                /\ calls'[c].ret[1].recordId = u.id
                /\ NewEvents[2].resolution = calls'[c].ret[1].resolution
       /\ Completes(c) =>
            /\ calls'[c].result[1].resolvedConflicts = calls[c].conflicts \o calls[c].ret
            /\ calls'[c].result[1].conflictCount
                 = Len(calls'[c].result[1].resolvedConflicts)
  /\ (\A c \in Cycles : ~Detects(c)) =>
       /\ CountOf(NewEvents, "conflict_detected") = 0
       /\ CountOf(NewEvents, "conflict_resolved") = 0
  /\ CountOf(events', "conflict_detected") = CountOf(events', "conflict_resolved")
  /\ CountOf(events', "conflict_resolved")
       = Sum([c \in Cycles |-> Len(calls'[c].conflicts \o calls'[c].ret)])

(***************************************************************************)
(* C29: for every conflict of a sync cycle the hub emits conflict_detected *)
(* and then conflict_resolved for the record of the update, with no event  *)
(* of another conflict between the two, and conflict_resolved carries the  *)
(* resolution that resolvedConflicts records; a cycle has as many          *)
(* conflict_detected events as conflict_resolved events and as its         *)
(* conflictCount says.                                                     *)
(***************************************************************************)
C29_ConflictEventsComePaired == [][ConflictEventsPaired]_vars

\* What the code does guarantee: the same, on a hub where no handler
\* registered with on() for one of the two events throws.
C29_PairedUnlessHandlerThrows ==
  [][(~Throws("conflict_detected") /\ ~Throws("conflict_resolved"))
       => ConflictEventsPaired]_vars

(***************************************************************************)
(* C30: a sync cycle that completes adds the number of its conflicts, the  *)
(* skipped ones included, to totalConflicts, and the number of its         *)
(* conflicts whose resolution is not skip to totalResolved; in every       *)
(* reachable state totalResolved <= totalConflicts <= totalPulled.         *)
(***************************************************************************)
C30_ConflictTotals ==
  /\ [](/\ stats.totalResolved <= stats.totalConflicts
        /\ stats.totalConflicts <= stats.totalPulled)
  /\ [][\A c \in Cycles :
          Completes(c) =>
            LET r == calls'[c].result[1]
                unskipped == {i \in 1..Len(r.resolvedConflicts) :
                                r.resolvedConflicts[i].resolution # "skip"}
            IN  /\ stats'.totalConflicts = stats.totalConflicts + r.conflictCount
                /\ stats'.totalResolved = stats.totalResolved + Cardinality(unskipped)
                /\ stats'.totalPulled = stats.totalPulled + r.pullCount]_vars

\* A cycle completed with one conflict, which was skipped.
C30_Witness ==
  /\ \E c \in Cycles :
       /\ calls[c].pc = "done"
       /\ calls[c].result[1].conflictCount = 1
       /\ calls[c].result[1].resolvedConflicts[1].resolution = "skip"
  /\ stats.totalConflicts = 1
  /\ stats.totalResolved = 0
  /\ stats.totalPulled = 1

\* This step takes call c into processRemoteUpdate of its next update.
Takes(c) == Len(calls'[c].cmp) = Len(calls[c].cmp) + 1

\* This step empties the change log.
Clears == Len(changeLog') < Len(changeLog)

(***************************************************************************)
(* C31: the steps of one sync cycle come in this order, recordChange calls *)
(* during the transport waits included: the increment of the own clock     *)
(* dimension, the pull message with the clock just incremented, the        *)
(* processing of every pulled update, the push message if the change log   *)
(* is not empty, the clearing of the change log.  No push is sent before   *)
(* every pulled update of the cycle was processed, and the log is not      *)
(* cleared before the push has returned.                                   *)
(***************************************************************************)
C31_StepsInOrder ==
  /\ [](\A c \in Cycles :
          /\ calls[c].pc \in {"idle", "pull"} => calls[c].cmp = <<>>
          /\ calls[c].pc \in {"push", "done"} =>
               Len(calls[c].cmp) = Len(calls[c].remoteUpdates)
          /\ calls[c].pc \in {"idle", "pull", "apply", "next"} =>
               calls[c].localChanges = <<>>)
  /\ [][/\ \A c \in Cycles :
             /\ Starts(c) =>
                  /\ OwnTick(vectorClock, vectorClock')
                  /\ sent' = Append(sent, sent'[Len(sent')])
                  /\ sent'[Len(sent')].type = "pull"
                  /\ sent'[Len(sent')].vectorClock = vectorClock'
             /\ Takes(c) =>
                  /\ calls[c].pc \in {"pull", "next"}
                  /\ calls'[c].idx = Len(calls[c].cmp) + 1
                  /\ sent' = sent
                  /\ changeLog' = changeLog
             /\ EntersPush(c) =>
                  /\ Len(calls[c].cmp) = Len(calls'[c].remoteUpdates)
                  /\ calls[c].pc = "next" => calls[c].idx = Len(calls[c].remoteUpdates)
                  /\ changeLog # <<>>
                  /\ sent'[Len(sent')].type = "push"
                  /\ changeLog' = changeLog
        /\ (Len(sent') > Len(sent) /\ sent'[Len(sent')].type = "push"
              /\ Len(force') <= Len(force)) =>
             \E c \in Cycles : EntersPush(c)
        /\ Clears =>
             /\ changeLog' = <<>>
             /\ \E c \in Cycles :
                  /\ calls[c].pc = "push"
                  /\ calls'[c].pc \in {"done", "failed"}
                  /\ ~PushRaises(c)]_vars

\* A cycle completed that pulled an update and pushed an entry which was
\* recorded after the cycle had incremented the clock and sent its pull.
C31_Witness ==
  \E c \in Cycles :
    /\ calls[c].pc = "done"
    /\ Len(calls[c].remoteUpdates) = 1
    /\ \E i \in 1..Len(calls[c].localChanges) :
         Get(calls[c].localChanges[i].vectorClock, AgentId)
           >= Get(calls[c].pullClock, AgentId)

\* The number of terminal events among es.
Terminals(es) == CountOf(es, "sync_completed") + CountOf(es, "sync_failed")

\* This step ends the cycle of call c.
Ends(c) == calls[c].pc \in InFlight /\ calls'[c].pc \in {"done", "failed"}

\* The events of the cycles, step by step: the step in which a call passes
\* the connected check emits sync_started and nothing else, and the call
\* goes on into its cycle; the step that ends a cycle emits one terminal
\* event, and no other step emits one; a call that has ended emits nothing
\* more; sync_completed carries the result the caller gets; totalSyncs
\* counts the sync_completed events.
CycleEvents ==
  /\ \A c \in Cycles :
       /\ (calls[c].pc = "idle" /\ calls'[c].pc # "idle") =>
            /\ NewEvents = <<[type |-> "sync_started", agentId |-> AgentId]>>
            /\ calls'[c].pc \in InFlight
       /\ Ends(c) => Terminals(NewEvents) = 1
       /\ Completes(c) =>
            /\ NewEvents[Len(NewEvents)].type = "sync_completed"
            /\ <<NewEvents[Len(NewEvents)].result>> = calls'[c].result
       /\ (calls[c].pc = "failed" \/ calls'[c].pc = "failed") =>
            calls'[c].result = <<>>
       /\ calls[c].pc \in {"done", "failed"} => calls'[c] = calls[c]
  /\ Terminals(NewEvents) > 0 => \E c \in Cycles : Ends(c)
  /\ Terminals(events') <= Cardinality({c \in Cycles : calls'[c].pc # "idle"})
  /\ stats'.totalSyncs = CountOf(events', "sync_completed")

(***************************************************************************)
(* C32: every call of sync that passes the connected check emits           *)
(* sync_started before any other event of its cycle and then exactly one   *)
(* terminal event, sync_completed or sync_failed and never both;           *)
(* sync_completed carries the result that the caller gets, and totalSyncs  *)
(* is the number of sync_completed events emitted so far.                  *)
(***************************************************************************)
C32_OneTerminalEvent == [][CycleEvents]_vars

\* What the code does guarantee: the same, on a hub where no handler
\* registered with on() for sync_started or sync_completed throws.
C32_OneTerminalUnlessHandlerThrows ==
  [][(~Throws("sync_started") /\ ~Throws("sync_completed")) => CycleEvents]_vars

\* And, with collaborators that answer, a cycle that is under way ends.
C32_CycleEnds ==
  \A c \in Cycles : (calls[c].pc \in InFlight) ~> (calls[c].pc \in {"done", "failed"})

ResolvesUnrecorded(c) ==
  /\ Processes(c)
  /\ Resolved(c) # <<>>
  /\ conflictResolution = "last-write-wins"
  /\ NoPendingVersion(Processed(c))

(***************************************************************************)
(* C34: when a conflict is resolved under last-write-wins and the change   *)
(* log holds no entry for the record, the local version that the           *)
(* ConflictInfo reports is a placeholder with timestamp 0, and the         *)
(* decision agrees with the versions reported: the resolution is remote    *)
(* exactly when the timestamp of remoteVersion is greater than the         *)
(* timestamp of localVersion of the same ConflictInfo.                     *)
(***************************************************************************)
C34_PlaceholderHasTimestampZero ==
  [][\A c \in Cycles :
       ResolvesUnrecorded(c) =>
         LET r == Resolved(c)[1]
         IN  /\ r.remoteVersion = Processed(c)
             /\ r.localVersion.id = r.recordId
             /\ r.localVersion.timestamp = 0
             /\ (r.resolution = "remote")
                  <=> r.remoteVersion.timestamp > r.localVersion.timestamp]_vars

\* What the code does: the placeholder it reports carries the hub's clock and
\* the time of the resolution, while the decision is taken against 0, so the
\* resolution is remote exactly when the remote timestamp is greater than 0.
C34_PlaceholderHasResolutionTime ==
  [][\A c \in Cycles :
       ResolvesUnrecorded(c) =>
         LET r == Resolved(c)[1]
         IN  /\ r.remoteVersion = Processed(c)
             /\ r.localVersion.id = r.recordId
             /\ r.localVersion.vectorClock = vectorClock
             /\ r.localVersion.timestamp = now'
             /\ r.resolution = IF r.remoteVersion.timestamp > 0
                               THEN "remote" ELSE "local"]_vars

\* An update of record r1 with a timestamp and nothing else to tell it by.
Plain(timestamp) ==
  [id |-> "r1", operation |-> "update", data |-> "", vectorClock |-> <<>>,
   timestamp |-> timestamp]

\* What two conflicts must agree on: the timestamp of the remote update and
\* the timestamp of the pending local version, or that there is none.  The
\* bare conflict has these and is plain in everything else; two conflicts
\* agree exactly when they have the same bare conflict.
Bare(conflict) ==
  LET localVersion == Find(conflict.log, conflict.remoteUpdate.id)
  IN  [log |-> IF localVersion = <<>> THEN <<>>
               ELSE <<Plain(localVersion[1].timestamp)>>,
       clock |-> <<>>,
       remoteUpdate |-> Plain(conflict.remoteUpdate.timestamp),
       t |-> 0]

ResolvedAlone == operands.op = "resolve"

(***************************************************************************)
(* C35: conflict resolution is deterministic and blind to the payload: two *)
(* conflicts that agree on the strategy, on the timestamp of the remote    *)
(* update and on the timestamp of the pending local version, or on there   *)
(* being none, get the same resolution, whatever the data, the operation   *)
(* and the clocks of the versions.  Every conflict gets the resolution of  *)
(* the bare conflict it agrees with.                                       *)
(***************************************************************************)
C35_ResolutionBlindToPayload ==
  ResolvedAlone =>
    LET bare == Bare(operands.a)
    IN  /\ operands.out.resolution
             = resolveConflict(bare.log, bare.clock, conflictResolution,
                               bare.remoteUpdate, bare.t).resolution
        /\ operands.out.resolution \in {"local", "remote", "merge", "skip"}
        /\ operands.out.remoteVersion = operands.a.remoteUpdate

\* A conflict was resolved to local whose remote update is a delete and whose
\* change log holds an entry of another record in front of the pending
\* version of the record.
C35_Witness ==
  /\ ResolvedAlone
  /\ Len(operands.a.log) = 2
  /\ operands.a.log[1].id # operands.a.remoteUpdate.id
  /\ operands.a.log[2].id = operands.a.remoteUpdate.id
  /\ operands.a.remoteUpdate.operation = "delete"
  /\ operands.a.log[2].operation = "insert"
  /\ operands.out.resolution = "local"

====
